---- MODULE Spec2Model ----
(***************************************************************************)
(* A model of the onc-rpc wire codec: the RpcMessage envelope, CallBody,   *)
(* the reply types, AuthFlavor, AuthUnixParams and the XDR opaque          *)
(* primitive, with both decoders (borrowed slice + cursor, and Bytes) and  *)
(* the serialiser.                                                         *)
(*                                                                         *)
(* Byte buffers are sequences of naturals in 0..255.  A u32 is a natural.  *)
(* TLC's integers are 32-bit signed, so the explored buffers keep the top  *)
(* byte of every u32 field below 128; the fragment header, whose top bit   *)
(* is the last-fragment flag, is split into flag and 31-bit length by      *)
(* arithmetic on its first byte.                                           *)
(***************************************************************************)
EXTENDS Integers, Sequences, FiniteSets, TLC

VARIABLES
    check_padding,    \* whether Opaque::from_wire rejects non-zero padding
    overflow_checks,  \* whether the build panics on integer overflow (debug) or wraps (release)
    pc,               \* the step the run has reached
    origin,           \* where wire came from: "built", "peer", "truncated", "corrupted", "extended"
    message,          \* the message built through the constructors, if any
    serialised,       \* the result of RpcMessage::serialise on message
    written,          \* the result of RpcMessage::serialise_into on message and a sink
    wire,             \* the byte buffer handed to the decoders
    len_res,          \* the result of expected_message_len(wire)
    parse_serialise,  \* what the parse_serialise fuzz target computed on wire
    fuzz_bytes,       \* what the bytes fuzz target computed on wire
    cursor            \* a Cursor<Vec<u8>> reused for one message after another

vars == << check_padding, overflow_checks, pc, origin, message, serialised, written, wire, len_res,
           parse_serialise, fuzz_bytes, cursor >>

(***************************************************************************)
(* Program constants                                                       *)
(***************************************************************************)
MSG_HEADER_LEN == 4
MESSAGE_TYPE_CALL == 0
MESSAGE_TYPE_REPLY == 1
RPC_VERSION == 2
AUTH_NONE == 0
AUTH_UNIX == 1
AUTH_SHORT == 2
MAX_GIDS == 16
MAX_MACHINE_NAME_LEN == 255
\* The limit AuthUnixParams::new asserts and the Bytes decoder gives try_array.
BYTES_MACHINE_NAME_MAX == 16
MAX_AUTH_DATA == 200
REPLY_ACCEPTED == 0
REPLY_DENIED == 1
REPLY_SUCCESS == 0
REPLY_PROG_UNAVAIL == 1
REPLY_PROG_MISMATCH == 2
REPLY_PROC_UNAVAIL == 3
REPLY_GARBAGE_ARGS == 4
REPLY_SYSTEM_ERR == 5
REJECTED_RPC_MISMATCH == 0
REJECTED_AUTH_ERROR == 1

(***************************************************************************)
(* Results.  A decoder returns Ok(value, rest) where rest is the cursor    *)
(* position (slice decoder) or the remaining Bytes view (Bytes decoder),   *)
(* Err(error), or Panic when the Rust code panics (failed assertion,       *)
(* out-of-range slice index, Bytes::advance past the end).                 *)
(***************************************************************************)
Ok(v, r) == [tag |-> "ok", val |-> v, rest |-> r]
Err(e) == [tag |-> "err", err |-> e]
Panic == [tag |-> "panic"]

\* The ? operator: an error (or a panic) of r ends the function with r,
\* otherwise the function goes on with r.
Then(r, F(_)) == IF r.tag # "ok" THEN r ELSE F(r)

\* let v = e;
Let(v, F(_)) == F(v)

\* The values of enum Error that the codec produces.
IncompleteMessage(b, e) == [kind |-> "IncompleteMessage", buffer_len |-> b, expected |-> e]
IncompleteHeader == [kind |-> "IncompleteHeader"]
Fragmented == [kind |-> "Fragmented"]
InvalidMessageType(v) == [kind |-> "InvalidMessageType", v |-> v]
InvalidReplyType(v) == [kind |-> "InvalidReplyType", v |-> v]
InvalidReplyStatus(v) == [kind |-> "InvalidReplyStatus", v |-> v]
InvalidAuthData == [kind |-> "InvalidAuthData"]
InvalidAuthError(v) == [kind |-> "InvalidAuthError", v |-> v]
InvalidRejectedReplyType(v) == [kind |-> "InvalidRejectedReplyType", v |-> v]
InvalidLength == [kind |-> "InvalidLength"]
InvalidRpcVersion(v) == [kind |-> "InvalidRpcVersion", v |-> v]
InvalidPaddingData == [kind |-> "InvalidPaddingData"]
\* From<std::io::Error>: the only i/o error a Cursor over a slice gives is
\* read_exact's UnexpectedEof.
IOErrorUnexpectedEof == [kind |-> "IOError", io |-> "UnexpectedEof"]

(***************************************************************************)
(* Big-endian u32 and the cursor / Bytes readers                           *)
(***************************************************************************)
\* u32::from_be_bytes of the four bytes after position pos (0-based).
BE32(data, pos) ==
    data[pos + 1] * 16777216 + data[pos + 2] * 65536 + data[pos + 3] * 256 + data[pos + 4]

\* u32::to_be_bytes
Write32(v) ==
    << v \div 16777216, (v \div 65536) % 256, (v \div 256) % 256, v % 256 >>

Drop(s, n) == SubSeq(s, n + 1, Len(s))

\* Cursor<&[u8]>::read_u32::<BigEndian>
read_u32(data, pos) ==
    IF pos + 4 > Len(data)
    THEN Err(IOErrorUnexpectedEof)
    ELSE Ok(BE32(data, pos), pos + 4)

\* BytesReaderExt::try_u32
try_u32(v) ==
    IF Len(v) < 4
    THEN Err(InvalidLength)
    ELSE Ok(BE32(v, 0), Drop(v, 4))

pad_length(l) ==
    IF l % 4 = 0 THEN 0 ELSE 4 - (l % 4)

\* BytesReaderExt::try_array: the body and the view advanced past body and padding.
try_array(v, max_len) ==
    Then(try_u32(v), LAMBDA l :
        IF l.val > max_len THEN Err(InvalidLength)
        ELSE IF l.val + pad_length(l.val) > Len(l.rest) THEN Err(InvalidLength)
        ELSE Ok(SubSeq(l.rest, 1, l.val), Drop(l.rest, l.val + pad_length(l.val))))

\* Bytes::advance(n): panics when n exceeds the remaining length.
advance(v, n) ==
    IF n > Len(v) THEN Panic ELSE Ok(n, Drop(v, n))

(***************************************************************************)
(* Opaque                                                                  *)
(***************************************************************************)
\* TryFrom<&mut Cursor<&[u8]>> for Opaque: no bound on len, no check that the
\* body or its padding lies inside the buffer before slicing; the cursor is
\* set to padded_end, the body is data[start..end].
Opaque_try_from(data, pos) ==
    Then(read_u32(data, pos), LAMBDA len :
        IF len.rest + len.val > Len(data) THEN Panic
        ELSE Ok(SubSeq(data, len.rest + 1, len.rest + len.val),
                pad_length(len.val) + (len.rest + len.val)))

AllZero(s) == \A i \in 1..Len(s) : s[i] = 0

\* Opaque::from_wire(r, max_len).into_inner(): the bounded, checked read the
\* slice decoder of AuthFlavor uses.  Rejecting non-zero padding is optional,
\* so it is a choice fixed for the whole run (check_padding).
Opaque_from_wire(data, pos, max_len) ==
    Then(read_u32(data, pos), LAMBDA len :
        Let(len.rest + len.val, LAMBDA end :
            IF len.val > max_len THEN Err(InvalidLength)
            ELSE IF pad_length(len.val) + end > Len(data) THEN Err(InvalidLength)
            ELSE IF check_padding
                    /\ ~AllZero(SubSeq(data, end + 1, pad_length(len.val) + end))
                 THEN Err(InvalidPaddingData)
            ELSE Ok(SubSeq(data, len.rest + 1, end), pad_length(len.val) + end)))

(***************************************************************************)
(* Lengths as the code computes them.  A usize or u32 length is kept as    *)
(* the pair of its upper part and its lower 16 bits, hi * 2^16 + lo, so    *)
(* that the values around 2^31 and 2^32 keep their width.                  *)
(***************************************************************************)
Half == 256 * 256

Wide(hi, lo) == [hi |-> hi, lo |-> lo]

\* The length n, at most 2^31 - 1.
WideOf(n) == Wide(n \div Half, n % Half)

\* The number a wide length of at most 2^31 - 1 stands for.
ToInt(a) == a.hi * Half + a.lo

\* usize + usize (no explored sum reaches 2^64).
WideAdd(a, b) == Wide(a.hi + b.hi + ((a.lo + b.lo) \div Half), (a.lo + b.lo) % Half)

\* The larger of two lengths.
WideMax(a, b) ==
    IF a.hi < b.hi \/ (a.hi = b.hi /\ a.lo < b.lo) THEN b ELSE a

\* `as u32`: the low 32 bits.
AsU32(a) == Wide(a.hi % Half, a.lo)

\* u32 + u32: a sum over 2^32 - 1 panics in a build with overflow checks and
\* wraps in a build without.
U32Add(a, b) ==
    IF WideAdd(a, b).hi < Half THEN Ok(WideAdd(a, b), 0)
    ELSE IF overflow_checks THEN Panic
    ELSE Ok(AsU32(WideAdd(a, b)), 0)

\* u32 - 4: below 4 it panics in a build with overflow checks and wraps in a
\* build without.
U32Sub4(a) ==
    IF a.hi > 0 \/ a.lo >= 4
    THEN Ok(IF a.lo >= 4 THEN Wide(a.hi, a.lo - 4) ELSE Wide(a.hi - 1, a.lo + Half - 4), 0)
    ELSE IF overflow_checks THEN Panic
    ELSE Ok(Wide(Half - 1, a.lo + Half - 4), 0)

\* v & LAST_FRAGMENT_BIT != 0 on a u32.
HasLastFragmentBit(a) == a.hi >= Half \div 2

\* The big-endian bytes of the u32 a | LAST_FRAGMENT_BIT.
HeaderBytes(a) ==
    Let(IF HasLastFragmentBit(a) THEN a.hi ELSE a.hi + Half \div 2, LAMBDA hi :
        << hi \div 256, hi % 256, a.lo \div 256, a.lo % 256 >>)

\* A payload too large to be held as a sequence is described by its length
\* alone: the marker -1, which is no byte, then the two parts of the length.
Huge(hi, lo) == << -1, hi, lo >>

IsHuge(bytes) == Len(bytes) = 3 /\ bytes[1] = -1

\* payload.as_ref().len()
PayloadLen(bytes) == IF IsHuge(bytes) THEN Wide(bytes[2], bytes[3]) ELSE WideOf(Len(bytes))

(***************************************************************************)
(* The output sink: any W: Write.  buf and pos are the bytes it holds and  *)
(* its position, bulk counts the bytes of a huge payload it holds after     *)
(* them and over how far such a payload moved the position beyond pos,     *)
(* calls counts the calls of write made on it.  A sink with          *)
(* fail = 0 is a Cursor<Vec<u8>>, which grows and never fails; otherwise   *)
(* call number fail returns an error without taking a byte, and so does    *)
(* every later call when the failure is sticky (a full buffer, a closed    *)
(* pipe) but not when it is transient (a socket that would block).         *)
(***************************************************************************)
NewSink == [buf |-> << >>, pos |-> 0, bulk |-> WideOf(0), over |-> WideOf(0), calls |-> 0,
            fail |-> 0, sticky |-> FALSE, failed |-> FALSE]

\* Cursor::set_position(0)
set_position_0(w) == [w EXCEPT !.pos = 0, !.over = WideOf(0)]

\* Cursor::position()
position(w) == WideAdd(WideOf(w.pos), w.over)

FailingSink(k, sticky) == [NewSink EXCEPT !.fail = k, !.sticky = sticky]

\* The std::io::Error a failing write returns.
IoWriteFailed == [kind |-> "IOError", io |-> "WriteFailed"]

\* The next call of write on w fails.
SinkRefuses(w) ==
    /\ w.fail # 0
    /\ \/ w.calls + 1 = w.fail
       \/ w.sticky /\ w.calls + 1 > w.fail

WOk(w) == [tag |-> "ok", w |-> w]

\* The ? operator on a write: go on with the sink as the write left it.
ThenW(r, F(_)) == IF r.tag # "ok" THEN r ELSE F(r.w)

\* Write::write_all: nothing to do for no bytes; otherwise one call of write,
\* which fails or overwrites from pos, growing the vector.
write_all(w, bytes) ==
    IF bytes = << >> THEN WOk(w)
    ELSE IF SinkRefuses(w)
    THEN [tag |-> "err", err |-> IoWriteFailed,
          w |-> [w EXCEPT !.calls = @ + 1, !.failed = TRUE]]
    ELSE IF IsHuge(bytes)
    THEN WOk([w EXCEPT !.buf = SubSeq(w.buf, 1, w.pos),
                       !.bulk = WideMax(@, PayloadLen(bytes)),
                       !.over = WideAdd(@, PayloadLen(bytes)),
                       !.calls = @ + 1])
    ELSE WOk([w EXCEPT !.buf = SubSeq(w.buf, 1, w.pos) \o bytes
                                  \o Drop(w.buf, w.pos + Len(bytes)),
                       !.pos = w.pos + Len(bytes),
                       !.calls = @ + 1])

write_u32(w, v) == write_all(w, Write32(v))

\* Opaque::serialise_into (and SerializeOpaque): body then zero padding, no
\* length prefix; the result of writing the body is discarded.
Opaque_serialise_into(body, w) ==
    Let(write_all(w, body), LAMBDA r1 :
        IF pad_length(Len(body)) > 0
        THEN write_all(r1.w, [i \in 1..pad_length(Len(body)) |-> 0])
        ELSE WOk(r1.w))

Opaque_serialised_len(body) == Len(body) + pad_length(Len(body))

\* Opaque::from_user_payload(data).serialise_into: length prefix, body, padding.
UserPayload_serialise_into(body, w) ==
    ThenW(write_u32(w, Len(body)), LAMBDA w1 :
    ThenW(write_all(w1, body), LAMBDA w2 :
    write_all(w2, [i \in 1..pad_length(Len(body)) |-> 0])))

UserPayload_serialised_len(body) == 4 + Len(body) + pad_length(Len(body))

(***************************************************************************)
(* AuthUnixParams                                                          *)
(***************************************************************************)
AuthUnixParams(stamp, machine_name, uid, gid, gids) ==
    [stamp |-> stamp, machine_name |-> machine_name, uid |-> uid, gid |-> gid,
     gids |-> gids]

\* (0..c).map(|_| r.read_u32()).collect::<Result<Gids, _>>()
RECURSIVE read_gids(_, _, _)
read_gids(data, pos, c) ==
    IF c = 0 THEN Ok(<< >>, pos)
    ELSE Then(read_u32(data, pos), LAMBDA g :
         Then(read_gids(data, g.rest, c - 1), LAMBDA more :
         Ok(<< g.val >> \o more.val, more.rest)))

\* (0..c).map(|_| v.try_u32()).collect::<Result<Gids, _>>()
RECURSIVE try_gids(_, _)
try_gids(v, c) ==
    IF c = 0 THEN Ok(<< >>, v)
    ELSE Then(try_u32(v), LAMBDA g :
         Then(try_gids(g.rest, c - 1), LAMBDA more :
         Ok(<< g.val >> \o more.val, more.rest)))

\* Mutation of AuthUnixParams_from_cursor: a gids count over MAX_GIDS is
\* reported as InvalidLength.
AuthUnixParams_from_cursor_gids_as_length(data, start_pos, expected_len) ==
    Then(read_u32(data, start_pos), LAMBDA stamp :
    Then(Opaque_try_from(data, stamp.rest), LAMBDA name :
    IF Len(name.val) > MAX_MACHINE_NAME_LEN THEN Err(InvalidLength) ELSE
    Then(read_u32(data, name.rest), LAMBDA uid :
    Then(read_u32(data, uid.rest), LAMBDA gid :
    Then(read_u32(data, gid.rest), LAMBDA gids_count :
    IF gids_count.val > MAX_GIDS THEN Err(InvalidLength) ELSE
    Then(read_gids(data, gids_count.rest, gids_count.val), LAMBDA gids :
    IF gids.rest - start_pos # expected_len THEN Err(InvalidAuthData) ELSE
    Ok(AuthUnixParams(stamp.val, name.val, uid.val, gid.val, gids.val), gids.rest)))))))

\* AuthUnixParams::from_cursor(r, expected_len)
AuthUnixParams_from_cursor(data, start_pos, expected_len) ==
    Then(read_u32(data, start_pos), LAMBDA stamp :
    Then(Opaque_try_from(data, stamp.rest), LAMBDA name :
    IF Len(name.val) > MAX_MACHINE_NAME_LEN THEN Err(InvalidLength) ELSE
    Then(read_u32(data, name.rest), LAMBDA uid :
    Then(read_u32(data, uid.rest), LAMBDA gid :
    Then(read_u32(data, gid.rest), LAMBDA gids_count :
    IF gids_count.val > MAX_GIDS THEN Err(InvalidAuthData) ELSE
    Then(read_gids(data, gids_count.rest, gids_count.val), LAMBDA gids :
    IF gids.rest - start_pos # expected_len THEN Err(InvalidAuthData) ELSE
    Ok(AuthUnixParams(stamp.val, name.val, uid.val, gid.val, gids.val), gids.rest)))))))

\* TryFrom<Bytes> for AuthUnixParams
AuthUnixParams_try_from(v) ==
    Then(try_u32(v), LAMBDA stamp :
    Then(try_array(stamp.rest, BYTES_MACHINE_NAME_MAX), LAMBDA name :
    Then(try_u32(name.rest), LAMBDA uid :
    Then(try_u32(uid.rest), LAMBDA gid :
    Then(try_u32(gid.rest), LAMBDA gids_count :
    IF gids_count.val > MAX_GIDS THEN Err(InvalidAuthData) ELSE
    Then(try_gids(gids_count.rest, gids_count.val), LAMBDA gids :
    Ok(AuthUnixParams(stamp.val, name.val, uid.val, gid.val, gids.val), gids.rest)))))))

\* Mutation of AuthUnixParams_new: gids beyond the 16th are dropped.
AuthUnixParams_new_truncating(stamp, machine_name, uid, gid, gids) ==
    IF Len(machine_name) > BYTES_MACHINE_NAME_MAX THEN Panic
    ELSE Ok(AuthUnixParams(stamp, machine_name, uid, gid,
                           SubSeq(gids, 1, IF Len(gids) > MAX_GIDS THEN MAX_GIDS ELSE Len(gids))), 0)

\* AuthUnixParams::new: panics on a machine name over 16 bytes or on more
\* than MAX_GIDS gids (FromIterator for Gids).
AuthUnixParams_new(stamp, machine_name, uid, gid, gids) ==
    IF Len(machine_name) > BYTES_MACHINE_NAME_MAX THEN Panic
    ELSE IF Len(gids) > MAX_GIDS THEN Panic
    ELSE Ok(AuthUnixParams(stamp, machine_name, uid, gid, gids), 0)

\* AuthUnixParams::gids
AuthUnixParams_gids(p) ==
    IF Len(p.gids) = 0 THEN << >> ELSE << p.gids >>

RECURSIVE write_gids(_, _)
write_gids(w, gids) ==
    IF gids = << >> THEN WOk(w)
    ELSE ThenW(write_u32(w, Head(gids)), LAMBDA w1 : write_gids(w1, Tail(gids)))

\* Mutation of AuthUnixParams_serialise_into: gid is written before uid.
AuthUnixParams_serialise_into_swapped(p, w) ==
    ThenW(write_u32(w, p.stamp), LAMBDA w1 :
    ThenW(write_u32(w1, Len(p.machine_name)), LAMBDA w2 :
    ThenW(Opaque_serialise_into(p.machine_name, w2), LAMBDA w3 :
    ThenW(write_u32(w3, p.gid), LAMBDA w4 :
    ThenW(write_u32(w4, p.uid), LAMBDA w5 :
    ThenW(write_u32(w5, Len(p.gids)), LAMBDA w6 :
    write_gids(w6, p.gids)))))))

\* AuthUnixParams::serialise_into
AuthUnixParams_serialise_into(p, w) ==
    ThenW(write_u32(w, p.stamp), LAMBDA w1 :
    ThenW(write_u32(w1, Len(p.machine_name)), LAMBDA w2 :
    ThenW(Opaque_serialise_into(p.machine_name, w2), LAMBDA w3 :
    ThenW(write_u32(w3, p.uid), LAMBDA w4 :
    ThenW(write_u32(w4, p.gid), LAMBDA w5 :
    ThenW(write_u32(w5, Len(p.gids)), LAMBDA w6 :
    write_gids(w6, p.gids)))))))

\* Mutation of AuthUnixParams_serialised_len: the padding of the machine
\* name is not counted.
AuthUnixParams_serialised_len_unpadded(p) ==
    4 * 3 + (Len(p.machine_name) + 4) + (Len(p.gids) + 1) * 4

\* AuthUnixParams::serialised_len
AuthUnixParams_serialised_len(p) ==
    4 * 3 + (Opaque_serialised_len(p.machine_name) + 4) + (Len(p.gids) + 1) * 4

\* AuthUnixParams::associated_data_len: the bytes of the fields without the
\* two length prefixes (flavor.rs tests: 27 for a 15-byte name and no gids,
\* 76 for an empty name and 16 gids).
AuthUnixParams_associated_data_len(p) ==
    12 + Len(p.machine_name) + 4 * Len(p.gids)

(***************************************************************************)
(* AuthFlavor                                                              *)
(***************************************************************************)
None == << >>
Some(d) == << d >>

AuthNone(opt) == [flavor |-> "AuthNone", opt |-> opt]
AuthUnix(p) == [flavor |-> "AuthUnix", params |-> p]
AuthShort(d) == [flavor |-> "AuthShort", data |-> d]
Unknown(id, d) == [flavor |-> "Unknown", id |-> id, data |-> d]

\* Mutation of AuthFlavor_new_none: an empty payload is kept as Some(empty).
AuthFlavor_new_none_present(data, pos) ==
    Then(Opaque_from_wire(data, pos, MAX_AUTH_DATA), LAMBDA payload :
        Ok(AuthNone(Some(payload.val)), payload.rest))

\* AuthFlavor::new_none
AuthFlavor_new_none(data, pos) ==
    Then(Opaque_from_wire(data, pos, MAX_AUTH_DATA), LAMBDA payload :
        IF payload.val = << >> THEN Ok(AuthNone(None), payload.rest)
        ELSE Ok(AuthNone(Some(payload.val)), payload.rest))

\* Mutation of AuthFlavor_new_unix: the declared length is not bounded.
AuthFlavor_new_unix_unbounded(data, pos) ==
    Then(read_u32(data, pos), LAMBDA len :
         Then(AuthUnixParams_from_cursor(data, len.rest, len.val), LAMBDA p :
              Ok(AuthUnix(p.val), p.rest)))

\* AuthFlavor::new_unix
AuthFlavor_new_unix(data, pos) ==
    Then(read_u32(data, pos), LAMBDA len :
        IF len.val > MAX_AUTH_DATA THEN Err(InvalidLength)
        ELSE Then(AuthUnixParams_from_cursor(data, len.rest, len.val), LAMBDA p :
                  Ok(AuthUnix(p.val), p.rest)))

\* AuthFlavor::new_short
AuthFlavor_new_short(data, pos) ==
    Then(Opaque_from_wire(data, pos, MAX_AUTH_DATA), LAMBDA payload :
        Ok(AuthShort(payload.val), payload.rest))

\* Mutation of AuthFlavor_from_cursor: the AUTH_SHORT arm is missing, the
\* discriminator 2 falls to the arm of the unknown flavors.
AuthFlavor_from_cursor_no_short(data, pos) ==
    Then(read_u32(data, pos), LAMBDA flavor :
        IF flavor.val = AUTH_NONE THEN AuthFlavor_new_none(data, flavor.rest)
        ELSE IF flavor.val = AUTH_UNIX THEN AuthFlavor_new_unix(data, flavor.rest)
        ELSE Then(Opaque_from_wire(data, flavor.rest, MAX_AUTH_DATA), LAMBDA payload :
                  Ok(Unknown(flavor.val, payload.val), payload.rest)))

\* AuthFlavor::from_cursor
AuthFlavor_from_cursor(data, pos) ==
    Then(read_u32(data, pos), LAMBDA flavor :
        IF flavor.val = AUTH_NONE THEN AuthFlavor_new_none(data, flavor.rest)
        ELSE IF flavor.val = AUTH_UNIX THEN AuthFlavor_new_unix(data, flavor.rest)
        ELSE IF flavor.val = AUTH_SHORT THEN AuthFlavor_new_short(data, flavor.rest)
        ELSE Then(Opaque_from_wire(data, flavor.rest, MAX_AUTH_DATA), LAMBDA payload :
                  Ok(Unknown(flavor.val, payload.val), payload.rest)))

\* AuthFlavor::id
AuthFlavor_id(f) ==
    CASE f.flavor = "AuthNone" -> AUTH_NONE
      [] f.flavor = "AuthUnix" -> AUTH_UNIX
      [] f.flavor = "AuthShort" -> AUTH_SHORT
      [] f.flavor = "Unknown" -> f.id

\* AuthFlavor::associated_data_len
AuthFlavor_associated_data_len(f) ==
    CASE f.flavor = "AuthNone" -> IF f.opt = None THEN 0 ELSE Len(f.opt[1])
      [] f.flavor = "AuthUnix" -> AuthUnixParams_associated_data_len(f.params)
      [] f.flavor = "AuthShort" -> Len(f.data)
      [] f.flavor = "Unknown" -> Len(f.data)

\* AuthFlavor::serialised_len
AuthFlavor_serialised_len(f) ==
    4 + (CASE f.flavor = "AuthNone" ->
                  IF f.opt = None THEN 4 + 0 ELSE UserPayload_serialised_len(f.opt[1])
           [] f.flavor = "AuthUnix" -> 4 + AuthUnixParams_serialised_len(f.params)
           [] f.flavor = "AuthShort" -> UserPayload_serialised_len(f.data)
           [] f.flavor = "Unknown" -> UserPayload_serialised_len(f.data))

\* AuthFlavor::serialise_into: the discriminator is written before the
\* assertion on the payload length.
AuthFlavor_serialise_into(f, w) ==
    ThenW(write_u32(w, AuthFlavor_id(f)), LAMBDA w0 :
    IF AuthFlavor_associated_data_len(f) > MAX_AUTH_DATA THEN [tag |-> "panic", w |-> w0] ELSE
    CASE f.flavor = "AuthNone" ->
             IF f.opt = None THEN write_u32(w0, 0)
             ELSE UserPayload_serialise_into(f.opt[1], w0)
      [] f.flavor = "AuthShort" -> UserPayload_serialise_into(f.data, w0)
      [] f.flavor = "Unknown" -> UserPayload_serialise_into(f.data, w0)
      [] f.flavor = "AuthUnix" ->
             ThenW(write_u32(w0, AuthUnixParams_serialised_len(f.params)), LAMBDA w1 :
             AuthUnixParams_serialise_into(f.params, w1)))

\* TryFrom<Bytes> for AuthFlavor.  The caller advances its own view by
\* serialised_len(); the view left here is not used.
AuthFlavor_try_from(v) ==
    Then(try_u32(v), LAMBDA flavor :
    Then(try_array(flavor.rest, MAX_AUTH_DATA), LAMBDA auth_data :
    IF flavor.val = AUTH_NONE
    THEN IF auth_data.val = << >>
         THEN Ok(AuthNone(None), auth_data.rest)
         ELSE Ok(AuthNone(Some(auth_data.val)), auth_data.rest)
    ELSE IF flavor.val = AUTH_UNIX
    THEN Then(AuthUnixParams_try_from(auth_data.val), LAMBDA params :
              IF AuthUnixParams_serialised_len(params.val) # Len(auth_data.val)
              THEN Err(InvalidAuthData)
              ELSE Ok(AuthUnix(params.val), auth_data.rest))
    ELSE IF flavor.val = AUTH_SHORT THEN Ok(AuthShort(auth_data.val), auth_data.rest)
    ELSE Ok(Unknown(flavor.val, auth_data.val), auth_data.rest)))

(***************************************************************************)
(* CallBody                                                                *)
(***************************************************************************)
CallBody(program, program_version, procedure, cred, verf, payload) ==
    [program |-> program, program_version |-> program_version,
     procedure |-> procedure, auth_credentials |-> cred, auth_verifier |-> verf,
     payload |-> payload]

\* Mutation of CallBody_from_cursor: the version is compared after the other
\* fields are read.
CallBody_from_cursor_late_version(data, pos) ==
    Then(read_u32(data, pos), LAMBDA rpc_version :
    Then(read_u32(data, rpc_version.rest), LAMBDA program :
    Then(read_u32(data, program.rest), LAMBDA program_version :
    Then(read_u32(data, program_version.rest), LAMBDA procedure :
    Then(AuthFlavor_from_cursor(data, procedure.rest), LAMBDA auth_credentials :
    Then(AuthFlavor_from_cursor(data, auth_credentials.rest), LAMBDA auth_verifier :
    IF rpc_version.val # RPC_VERSION THEN Err(InvalidRpcVersion(rpc_version.val)) ELSE
    IF auth_verifier.rest > Len(data) THEN Panic ELSE
    Ok(CallBody(program.val, program_version.val, procedure.val, auth_credentials.val,
                auth_verifier.val, Drop(data, auth_verifier.rest)),
       Len(data))))))))

\* CallBody::from_cursor
CallBody_from_cursor(data, pos) ==
    Then(read_u32(data, pos), LAMBDA rpc_version :
    IF rpc_version.val # RPC_VERSION THEN Err(InvalidRpcVersion(rpc_version.val)) ELSE
    Then(read_u32(data, rpc_version.rest), LAMBDA program :
    Then(read_u32(data, program.rest), LAMBDA program_version :
    Then(read_u32(data, program_version.rest), LAMBDA procedure :
    Then(AuthFlavor_from_cursor(data, procedure.rest), LAMBDA auth_credentials :
    Then(AuthFlavor_from_cursor(data, auth_credentials.rest), LAMBDA auth_verifier :
    \* &data[start..] panics when start is past the end of data
    IF auth_verifier.rest > Len(data) THEN Panic ELSE
    Ok(CallBody(program.val, program_version.val, procedure.val, auth_credentials.val,
                auth_verifier.val, Drop(data, auth_verifier.rest)),
       Len(data))))))))

\* TryFrom<Bytes> for CallBody
CallBody_try_from(v) ==
    Then(try_u32(v), LAMBDA rpc_version :
    IF rpc_version.val # RPC_VERSION THEN Err(InvalidRpcVersion(rpc_version.val)) ELSE
    Then(try_u32(rpc_version.rest), LAMBDA program :
    Then(try_u32(program.rest), LAMBDA program_version :
    Then(try_u32(program_version.rest), LAMBDA procedure :
    Then(AuthFlavor_try_from(procedure.rest), LAMBDA auth_credentials :
    Then(advance(procedure.rest, AuthFlavor_serialised_len(auth_credentials.val)), LAMBDA v1 :
    Then(AuthFlavor_try_from(v1.rest), LAMBDA auth_verifier :
    Then(advance(v1.rest, AuthFlavor_serialised_len(auth_verifier.val)), LAMBDA v2 :
    Ok(CallBody(program.val, program_version.val, procedure.val, auth_credentials.val,
                auth_verifier.val, v2.rest),
       << >>)))))))))

\* CallBody::new
CallBody_new(program, program_version, procedure, cred, verf, payload) ==
    CallBody(program, program_version, procedure, cred, verf, payload)

\* Mutation of CallBody_serialise_into: the procedure is written before the
\* program version.
CallBody_serialise_into_reordered(b, w) ==
    ThenW(write_u32(w, RPC_VERSION), LAMBDA w1 :
    ThenW(write_u32(w1, b.program), LAMBDA w2 :
    ThenW(write_u32(w2, b.procedure), LAMBDA w3 :
    ThenW(write_u32(w3, b.program_version), LAMBDA w4 :
    ThenW(AuthFlavor_serialise_into(b.auth_credentials, w4), LAMBDA w5 :
    ThenW(AuthFlavor_serialise_into(b.auth_verifier, w5), LAMBDA w6 :
    write_all(w6, b.payload)))))))

\* CallBody::serialise_into
CallBody_serialise_into(b, w) ==
    ThenW(write_u32(w, RPC_VERSION), LAMBDA w1 :
    ThenW(write_u32(w1, b.program), LAMBDA w2 :
    ThenW(write_u32(w2, b.program_version), LAMBDA w3 :
    ThenW(write_u32(w3, b.procedure), LAMBDA w4 :
    ThenW(AuthFlavor_serialise_into(b.auth_credentials, w4), LAMBDA w5 :
    ThenW(AuthFlavor_serialise_into(b.auth_verifier, w5), LAMBDA w6 :
    write_all(w6, b.payload)))))))

\* CallBody::rpc_version
CallBody_rpc_version(b) == 2

\* CallBody::serialised_len: the sum is made in usize and cut to a u32.
CallBody_serialised_len(b) ==
    Ok(AsU32(WideAdd(WideOf(4 * 4 + AuthFlavor_serialised_len(b.auth_credentials)
                                  + AuthFlavor_serialised_len(b.auth_verifier)),
                     PayloadLen(b.payload))), 0)

(***************************************************************************)
(* AcceptedStatus, AcceptedReply                                           *)
(***************************************************************************)
Success(p) == [status |-> "Success", payload |-> p]
ProgramUnavailable == [status |-> "ProgramUnavailable"]
ProgramMismatch(l, h) == [status |-> "ProgramMismatch", low |-> l, high |-> h]
ProcedureUnavailable == [status |-> "ProcedureUnavailable"]
GarbageArgs == [status |-> "GarbageArgs"]
SystemError == [status |-> "SystemError"]

AcceptedReply(verf, status) == [auth_verifier |-> verf, status |-> status]

\* AcceptedStatus::from_cursor (new_success takes the rest of the buffer)
AcceptedStatus_from_cursor(data, pos) ==
    Then(read_u32(data, pos), LAMBDA d :
    CASE d.val = REPLY_SUCCESS ->
             IF d.rest > Len(data) THEN Panic
             ELSE Ok(Success(Drop(data, d.rest)), Len(data))
      [] d.val = REPLY_PROG_UNAVAIL -> Ok(ProgramUnavailable, d.rest)
      [] d.val = REPLY_PROG_MISMATCH ->
             Then(read_u32(data, d.rest), LAMBDA low :
             Then(read_u32(data, low.rest), LAMBDA high :
             Ok(ProgramMismatch(low.val, high.val), high.rest)))
      [] d.val = REPLY_PROC_UNAVAIL -> Ok(ProcedureUnavailable, d.rest)
      [] d.val = REPLY_GARBAGE_ARGS -> Ok(GarbageArgs, d.rest)
      [] d.val = REPLY_SYSTEM_ERR -> Ok(SystemError, d.rest)
      [] OTHER -> Err(InvalidReplyStatus(d.val)))

\* TryFrom<Bytes> for AcceptedStatus
AcceptedStatus_try_from(v) ==
    Then(try_u32(v), LAMBDA d :
    CASE d.val = REPLY_SUCCESS -> Ok(Success(d.rest), << >>)
      [] d.val = REPLY_PROG_UNAVAIL -> Ok(ProgramUnavailable, d.rest)
      [] d.val = REPLY_PROG_MISMATCH ->
             Then(try_u32(d.rest), LAMBDA low :
             Then(try_u32(low.rest), LAMBDA high :
             Ok(ProgramMismatch(low.val, high.val), high.rest)))
      [] d.val = REPLY_PROC_UNAVAIL -> Ok(ProcedureUnavailable, d.rest)
      [] d.val = REPLY_GARBAGE_ARGS -> Ok(GarbageArgs, d.rest)
      [] d.val = REPLY_SYSTEM_ERR -> Ok(SystemError, d.rest)
      [] OTHER -> Err(InvalidReplyStatus(d.val)))

\* AcceptedStatus::serialise_into
AcceptedStatus_serialise_into(s, w) ==
    CASE s.status = "Success" ->
             ThenW(write_u32(w, REPLY_SUCCESS), LAMBDA w1 : write_all(w1, s.payload))
      [] s.status = "ProgramUnavailable" -> write_u32(w, REPLY_PROG_UNAVAIL)
      [] s.status = "ProgramMismatch" ->
             ThenW(write_u32(w, REPLY_PROG_MISMATCH), LAMBDA w1 :
             ThenW(write_u32(w1, s.low), LAMBDA w2 :
             write_u32(w2, s.high)))
      [] s.status = "ProcedureUnavailable" -> write_u32(w, REPLY_PROC_UNAVAIL)
      [] s.status = "GarbageArgs" -> write_u32(w, REPLY_GARBAGE_ARGS)
      [] s.status = "SystemError" -> write_u32(w, REPLY_SYSTEM_ERR)

\* AcceptedStatus::serialised_len
AcceptedStatus_serialised_len(s) ==
    U32Add(WideOf(4), CASE s.status = "Success" -> AsU32(PayloadLen(s.payload))
                        [] s.status = "ProgramMismatch" -> WideOf(8)
                        [] OTHER -> WideOf(0))

\* AcceptedReply::from_cursor
AcceptedReply_from_cursor(data, pos) ==
    Then(AuthFlavor_from_cursor(data, pos), LAMBDA auth_verifier :
    Then(AcceptedStatus_from_cursor(data, auth_verifier.rest), LAMBDA status :
    Ok(AcceptedReply(auth_verifier.val, status.val), status.rest)))

\* TryFrom<Bytes> for AcceptedReply
AcceptedReply_try_from(v) ==
    Then(AuthFlavor_try_from(v), LAMBDA auth_verifier :
    Then(advance(v, AuthFlavor_serialised_len(auth_verifier.val)), LAMBDA v1 :
    Then(AcceptedStatus_try_from(v1.rest), LAMBDA status :
    Ok(AcceptedReply(auth_verifier.val, status.val), status.rest))))

\* AcceptedReply::new
AcceptedReply_new(verf, status) == AcceptedReply(verf, status)

\* AcceptedReply::serialise_into
AcceptedReply_serialise_into(a, w) ==
    ThenW(AuthFlavor_serialise_into(a.auth_verifier, w), LAMBDA w1 :
    AcceptedStatus_serialise_into(a.status, w1))

\* AcceptedReply::serialised_len
AcceptedReply_serialised_len(a) ==
    Then(AcceptedStatus_serialised_len(a.status), LAMBDA status :
        U32Add(WideOf(AuthFlavor_serialised_len(a.auth_verifier)), status.val))

(***************************************************************************)
(* RejectedReply, AuthError                                                *)
(***************************************************************************)
\* AuthError, in discriminator order (AUTH_ERROR_SUCCESS = 0 .. AUTH_ERROR_FAILED = 7)
AuthErrorNames ==
    << "Success", "BadCredentials", "RejectedCredentials", "BadVerifier",
       "RejectedVerifier", "TooWeak", "InvalidResponseVerifier", "Failed" >>

RpcVersionMismatch(l, h) == [rejected |-> "RpcVersionMismatch", low |-> l, high |-> h]
RejectedAuthError(e) == [rejected |-> "AuthError", err |-> e]

\* Mutation of AuthError_from_cursor: an unknown value becomes Failed.
AuthError_from_cursor_clamped(data, pos) ==
    Then(read_u32(data, pos), LAMBDA d :
        IF d.val < Len(AuthErrorNames) THEN Ok(AuthErrorNames[d.val + 1], d.rest)
        ELSE Ok("Failed", d.rest))

\* AuthError::from_cursor
AuthError_from_cursor(data, pos) ==
    Then(read_u32(data, pos), LAMBDA d :
        IF d.val < Len(AuthErrorNames) THEN Ok(AuthErrorNames[d.val + 1], d.rest)
        ELSE Err(InvalidAuthError(d.val)))

\* TryFrom<Bytes> for AuthError
AuthError_try_from(v) ==
    Then(try_u32(v), LAMBDA d :
        IF d.val < Len(AuthErrorNames) THEN Ok(AuthErrorNames[d.val + 1], d.rest)
        ELSE Err(InvalidAuthError(d.val)))

\* AuthError::serialise_into
AuthError_serialise_into(e, w) ==
    write_u32(w, (CHOOSE i \in 1..Len(AuthErrorNames) : AuthErrorNames[i] = e) - 1)

\* RejectedReply::from_cursor
RejectedReply_from_cursor(data, pos) ==
    Then(read_u32(data, pos), LAMBDA d :
    CASE d.val = REJECTED_RPC_MISMATCH ->
             Then(read_u32(data, d.rest), LAMBDA low :
             Then(read_u32(data, low.rest), LAMBDA high :
             Ok(RpcVersionMismatch(low.val, high.val), high.rest)))
      [] d.val = REJECTED_AUTH_ERROR ->
             Then(AuthError_from_cursor(data, d.rest), LAMBDA e :
             Ok(RejectedAuthError(e.val), e.rest))
      [] OTHER -> Err(InvalidRejectedReplyType(d.val)))

\* TryFrom<Bytes> for RejectedReply
RejectedReply_try_from(v) ==
    Then(try_u32(v), LAMBDA d :
    CASE d.val = REJECTED_RPC_MISMATCH ->
             Then(try_u32(d.rest), LAMBDA low :
             Then(try_u32(low.rest), LAMBDA high :
             Ok(RpcVersionMismatch(low.val, high.val), high.rest)))
      [] d.val = REJECTED_AUTH_ERROR ->
             Then(AuthError_try_from(d.rest), LAMBDA e :
             Ok(RejectedAuthError(e.val), e.rest))
      [] OTHER -> Err(InvalidRejectedReplyType(d.val)))

\* RejectedReply::serialise_into
RejectedReply_serialise_into(r, w) ==
    CASE r.rejected = "RpcVersionMismatch" ->
             ThenW(write_u32(w, REJECTED_RPC_MISMATCH), LAMBDA w1 :
             ThenW(write_u32(w1, r.low), LAMBDA w2 :
             write_u32(w2, r.high)))
      [] r.rejected = "AuthError" ->
             ThenW(write_u32(w, REJECTED_AUTH_ERROR), LAMBDA w1 :
             AuthError_serialise_into(r.err, w1))

\* RejectedReply::serialised_len (AuthError::serialised_len is 4)
RejectedReply_serialised_len(r) ==
    U32Add(WideOf(4), WideOf(IF r.rejected = "RpcVersionMismatch" THEN 4 + 4 ELSE 4))

(***************************************************************************)
(* ReplyBody                                                               *)
(***************************************************************************)
Accepted(a) == [reply |-> "Accepted", body |-> a]
Denied(r) == [reply |-> "Denied", body |-> r]

\* ReplyBody::from_cursor
ReplyBody_from_cursor(data, pos) ==
    Then(read_u32(data, pos), LAMBDA d :
    CASE d.val = REPLY_ACCEPTED ->
             Then(AcceptedReply_from_cursor(data, d.rest), LAMBDA a :
             Ok(Accepted(a.val), a.rest))
      [] d.val = REPLY_DENIED ->
             Then(RejectedReply_from_cursor(data, d.rest), LAMBDA r :
             Ok(Denied(r.val), r.rest))
      [] OTHER -> Err(InvalidReplyType(d.val)))

\* TryFrom<Bytes> for ReplyBody
ReplyBody_try_from(v) ==
    Then(try_u32(v), LAMBDA d :
    CASE d.val = REPLY_ACCEPTED ->
             Then(AcceptedReply_try_from(d.rest), LAMBDA a :
             Ok(Accepted(a.val), a.rest))
      [] d.val = REPLY_DENIED ->
             Then(RejectedReply_try_from(d.rest), LAMBDA r :
             Ok(Denied(r.val), r.rest))
      [] OTHER -> Err(InvalidReplyType(d.val)))

\* ReplyBody::serialise_into
ReplyBody_serialise_into(b, w) ==
    CASE b.reply = "Accepted" ->
             ThenW(write_u32(w, REPLY_ACCEPTED), LAMBDA w1 :
             AcceptedReply_serialise_into(b.body, w1))
      [] b.reply = "Denied" ->
             ThenW(write_u32(w, REPLY_DENIED), LAMBDA w1 :
             RejectedReply_serialise_into(b.body, w1))

\* ReplyBody::serialised_len
ReplyBody_serialised_len(b) ==
    Then(IF b.reply = "Accepted"
         THEN AcceptedReply_serialised_len(b.body)
         ELSE RejectedReply_serialised_len(b.body),
         LAMBDA len : U32Add(WideOf(4), len.val))

(***************************************************************************)
(* MessageType                                                             *)
(***************************************************************************)
Call(b) == [type |-> "Call", body |-> b]
Reply(b) == [type |-> "Reply", body |-> b]

\* MessageType::from_cursor
MessageType_from_cursor(data, pos) ==
    Then(read_u32(data, pos), LAMBDA d :
    CASE d.val = MESSAGE_TYPE_CALL ->
             Then(CallBody_from_cursor(data, d.rest), LAMBDA b : Ok(Call(b.val), b.rest))
      [] d.val = MESSAGE_TYPE_REPLY ->
             Then(ReplyBody_from_cursor(data, d.rest), LAMBDA b : Ok(Reply(b.val), b.rest))
      [] OTHER -> Err(InvalidMessageType(d.val)))

\* TryFrom<Bytes> for MessageType
MessageType_try_from(v) ==
    Then(try_u32(v), LAMBDA d :
    CASE d.val = MESSAGE_TYPE_CALL ->
             Then(CallBody_try_from(d.rest), LAMBDA b : Ok(Call(b.val), b.rest))
      [] d.val = MESSAGE_TYPE_REPLY ->
             Then(ReplyBody_try_from(d.rest), LAMBDA b : Ok(Reply(b.val), b.rest))
      [] OTHER -> Err(InvalidMessageType(d.val)))

\* MessageType::serialise_into
MessageType_serialise_into(t, w) ==
    CASE t.type = "Call" ->
             ThenW(write_u32(w, MESSAGE_TYPE_CALL), LAMBDA w1 :
             CallBody_serialise_into(t.body, w1))
      [] t.type = "Reply" ->
             ThenW(write_u32(w, MESSAGE_TYPE_REPLY), LAMBDA w1 :
             ReplyBody_serialise_into(t.body, w1))

\* MessageType::serialised_len
MessageType_serialised_len(t) ==
    Then(IF t.type = "Call"
         THEN CallBody_serialised_len(t.body)
         ELSE ReplyBody_serialised_len(t.body),
         LAMBDA len : U32Add(len.val, WideOf(4)))

(***************************************************************************)
(* RpcMessage and the fragment header                                      *)
(***************************************************************************)
RpcMessage(xid, message_type) == [xid |-> xid, message_type |-> message_type]

\* RpcMessage::new
RpcMessage_new(xid, message_type) == RpcMessage(xid, message_type)

\* RpcMessage::serialised_len
RpcMessage_serialised_len(m) ==
    Then(MessageType_serialised_len(m.message_type), LAMBDA len :
    Then(U32Add(len.val, WideOf(4)), LAMBDA len4 :
    U32Add(len4.val, WideOf(4))))

\* Mutation of expected_message_len: the last-fragment bit is masked off
\* without being tested.
expected_message_len_any_fragment(data) ==
    IF Len(data) < MSG_HEADER_LEN THEN Err(IncompleteHeader)
    ELSE Ok((data[1] % 128) * 16777216 + data[2] * 65536 + data[3] * 256 + data[4] + 4, 0)

\* Mutation of expected_message_len: a buffer too short for the header is
\* reported as an incomplete message.
expected_message_len_short_as_incomplete(data) ==
    IF Len(data) < MSG_HEADER_LEN THEN Err(IncompleteMessage(Len(data), MSG_HEADER_LEN))
    ELSE IF data[1] < 128 THEN Err(Fragmented)
    ELSE Ok((data[1] - 128) * 16777216 + data[2] * 65536 + data[3] * 256 + data[4] + 4, 0)

\* expected_message_len: header & LAST_FRAGMENT_BIT is the top bit of the
\* first byte; header & !LAST_FRAGMENT_BIT is the remaining 31 bits.
expected_message_len(data) ==
    IF Len(data) < MSG_HEADER_LEN THEN Err(IncompleteHeader)
    ELSE IF data[1] < 128 THEN Err(Fragmented)
    ELSE Ok((data[1] - 128) * 16777216 + data[2] * 65536 + data[3] * 256 + data[4] + 4, 0)

\* Mutation of unwrap_header: only a buffer shorter than the declared length
\* is rejected.
unwrap_header_at_least(data) ==
    Then(expected_message_len(data), LAMBDA want :
        IF Len(data) < want.val
        THEN Err(IncompleteMessage(Len(data), want.val))
        ELSE Ok(Drop(data, MSG_HEADER_LEN), 0))

\* unwrap_header
unwrap_header(data) ==
    Then(expected_message_len(data), LAMBDA want :
        IF Len(data) # want.val
        THEN Err(IncompleteMessage(Len(data), want.val))
        ELSE Ok(Drop(data, MSG_HEADER_LEN), 0))

\* Mutation of CheckParsedLen: only a message longer than the buffer is
\* rejected.
CheckParsedLen_at_most(msg, buffer_len, rest) ==
    Then(RpcMessage_serialised_len(msg), LAMBDA parsed_len :
        IF ToInt(parsed_len.val) > buffer_len
        THEN Err(IncompleteMessage(buffer_len, ToInt(parsed_len.val)))
        ELSE Ok(msg, rest))

\* The check that ends both decoders: the message must serialise to exactly
\* the length of the buffer it was read from.
CheckParsedLen(msg, buffer_len, rest) ==
    Then(RpcMessage_serialised_len(msg), LAMBDA parsed_len :
        IF parsed_len.val # WideOf(buffer_len)
        THEN Err(IncompleteMessage(buffer_len, ToInt(parsed_len.val)))
        ELSE Ok(msg, rest))

\* RpcMessage::from_bytes.  On success rest is the final cursor position in
\* the data after the header.
RpcMessage_from_bytes(buf) ==
    Then(unwrap_header(buf), LAMBDA data :
    Then(read_u32(data.val, 0), LAMBDA xid :
    Then(MessageType_from_cursor(data.val, xid.rest), LAMBDA message_type :
    CheckParsedLen(RpcMessage(xid.val, message_type.val), Len(buf), message_type.rest))))

\* TryFrom<Bytes> for RpcMessage.  On success rest is the view left unread.
RpcMessage_try_from(v) ==
    Then(expected_message_len(v), LAMBDA want :
    IF Len(v) # want.val THEN Err(IncompleteMessage(Len(v), want.val)) ELSE
    Then(advance(v, MSG_HEADER_LEN), LAMBDA v1 :
    Then(try_u32(v1.rest), LAMBDA xid :
    Then(MessageType_try_from(xid.rest), LAMBDA message_type :
    CheckParsedLen(RpcMessage(xid.val, message_type.val), Len(v), message_type.rest)))))

\* io::Error::new(io::ErrorKind::InvalidInput, "message length exceeds maximum")
IoInvalidInput == [kind |-> "IOError", io |-> "InvalidInput"]

\* The fragment header of a record of n bytes: LAST_FRAGMENT_BIT | n.
Header(n) ==
    << 128 + (n \div 16777216), (n \div 65536) % 256, (n \div 256) % 256, n % 256 >>

\* RpcMessage::serialise_into
RpcMessage_serialise_into(m, w) ==
    Let(RpcMessage_serialised_len(m), LAMBDA len :
        IF len.tag = "panic" THEN [tag |-> "panic", w |-> w]
        ELSE IF HasLastFragmentBit(len.val)
        THEN [tag |-> "err", err |-> IoInvalidInput, w |-> w]
        ELSE Let(U32Sub4(len.val), LAMBDA header :
             IF header.tag = "panic" THEN [tag |-> "panic", w |-> w]
             ELSE ThenW(write_all(w, HeaderBytes(header.val)), LAMBDA w1 :
                  ThenW(write_u32(w1, m.xid), LAMBDA w2 :
                  MessageType_serialise_into(m.message_type, w2)))))

\* RpcMessage::serialise: a fresh Cursor<Vec<u8>>, returned as the vector.
RpcMessage_serialise(m) ==
    Let(RpcMessage_serialise_into(m, NewSink), LAMBDA r :
        IF r.tag = "ok" THEN [tag |-> "ok", bytes |-> r.w.buf]
        ELSE IF r.tag = "panic" THEN Panic
        ELSE Err(r.err))

(***************************************************************************)
(* Building a message through the constructors                             *)
(***************************************************************************)
\* An auth flavor value as an application gets it: the enum variants are
\* public, the AuthUnix parameters only come from AuthUnixParams::new.
NewFlavor(f) ==
    IF f.flavor = "AuthUnix"
    THEN Then(AuthUnixParams_new(f.params.stamp, f.params.machine_name, f.params.uid,
                                 f.params.gid, f.params.gids),
              LAMBDA p : Ok(AuthUnix(p.val), 0))
    ELSE Ok(f, 0)

\* The message an application builds from the blueprint b with
\* RpcMessage::new, CallBody::new, AcceptedReply::new and AuthUnixParams::new.
NewMessage(b) ==
    IF b.message_type.type = "Call"
    THEN Let(b.message_type.body, LAMBDA c :
         Then(NewFlavor(c.auth_credentials), LAMBDA cred :
         Then(NewFlavor(c.auth_verifier), LAMBDA verf :
         Ok(RpcMessage_new(b.xid, Call(CallBody_new(c.program, c.program_version,
                c.procedure, cred.val, verf.val, c.payload))), 0))))
    ELSE IF b.message_type.body.reply = "Accepted"
    THEN Let(b.message_type.body.body, LAMBDA a :
         Then(NewFlavor(a.auth_verifier), LAMBDA verf :
         Ok(RpcMessage_new(b.xid, Reply(Accepted(AcceptedReply_new(verf.val, a.status)))),
            0)))
    ELSE Ok(RpcMessage_new(b.xid, b.message_type), 0)

(***************************************************************************)
(* The explored inputs                                                     *)
(***************************************************************************)
\* The length of the machine name LAPTOP-1QQBPDGM of
\* test_auth_unix_unaligned_machinename.
UnalignedNameLen == 15

\* Longest opaque auth payload, machine name, gid list and call/reply
\* payload of the explored messages (on top of the edge cases named below).
MaxOpaqueLen == 3
MaxNameLen == 2
MaxGidsLen == 1
MaxPayloadLen == 1

\* n distinct non-zero bytes, so that padding and data can be told apart.
Data(n) == [i \in 1..n |-> 16 + i]

\* Flavor discriminators given to AuthFlavor::Unknown, the known ones included.
UnknownIds == {0, 1, 2, 3}

\* Machine name lengths at the two limits of the code (16 and 255 are the
\* limits of AuthUnixParams::new / try_array and of from_cursor).
EdgeNameLens == {BYTES_MACHINE_NAME_MAX, BYTES_MACHINE_NAME_MAX + 1}

\* The values a corrupted byte takes.
CorruptVals == {0, 1, 3, 17, 100}

\* Bytes appended to a buffer.
ExtraBytes == {<< 0 >>, Data(4)}

UnixParams(n, g) == AuthUnixParams(1, Data(n), 2, 3, [i \in 1..g |-> 4 + i])

OpaqueFlavors ==
    {AuthNone(None)}
        \cup {AuthNone(Some(Data(n))) : n \in 0..MaxOpaqueLen}
        \cup {AuthShort(Data(n)) : n \in 0..MaxOpaqueLen}
        \cup {Unknown(id, Data(MaxOpaqueLen)) : id \in UnknownIds}

UnixFlavors ==
    {AuthUnix(UnixParams(n, g)) : n \in (0..MaxNameLen) \cup EdgeNameLens, g \in 0..MaxGidsLen}

\* The parameters of the repository's tests: no name and 16 gids, a 15 byte
\* name and no gids, and one gid more than AuthUnixParams::new takes.
EdgeUnixParams ==
    {UnixParams(0, MAX_GIDS), UnixParams(UnalignedNameLen, 0), UnixParams(0, MAX_GIDS + 1)}

\* More than 200 bytes of auth data.
OversizeFlavor == AuthShort([i \in 1..(MAX_AUTH_DATA + 1) |-> 1])

VerifierFlavors == {AuthShort(Data(1)), AuthUnix(UnixParams(1, MaxGidsLen))}

CallOf(cred, verf, payload) == RpcMessage(7, Call(CallBody(8, 9, 10, cred, verf, payload)))

ReplyOf(body) == RpcMessage(7, Reply(body))

Statuses ==
    {Success(Data(n)) : n \in 0..MaxPayloadLen}
        \cup {ProgramUnavailable, ProgramMismatch(2, 3), ProcedureUnavailable,
              GarbageArgs, SystemError}

\* Replies whose wire form has a fixed size after the verifier.
FixedReplies ==
    {ReplyOf(Accepted(AcceptedReply(AuthNone(None), st))) :
        st \in {ProgramUnavailable, ProgramMismatch(2, 3)}}
        \cup {ReplyOf(Denied(RpcVersionMismatch(2, 3))), ReplyOf(Denied(RejectedAuthError("TooWeak")))}

\* What an application hands to the constructors.
Blueprints ==
    {CallOf(f, AuthNone(None), Data(MaxPayloadLen)) :
        f \in OpaqueFlavors \cup UnixFlavors \cup {OversizeFlavor}}
        \cup {CallOf(AuthNone(None), f, Data(n)) : f \in VerifierFlavors, n \in 0..MaxPayloadLen}
        \cup {CallOf(AuthUnix(UnixParams(n, 0)), AuthUnix(UnixParams(0, MaxGidsLen)), << >>) :
                n \in 1..MaxNameLen}
        \cup {CallOf(AuthUnix(p), AuthNone(None), << >>) : p \in EdgeUnixParams}
        \cup {ReplyOf(Accepted(AcceptedReply(AuthNone(None), st))) : st \in Statuses}
        \cup {ReplyOf(Accepted(AcceptedReply(f, Success(Data(MaxPayloadLen))))) :
                f \in VerifierFlavors}
        \cup {ReplyOf(Denied(RpcVersionMismatch(2, 3)))}
        \cup {ReplyOf(Denied(RejectedAuthError(AuthErrorNames[i]))) :
                i \in 1..Len(AuthErrorNames)}

\* Payload lengths around 2^31 and 2^32.  With AuthNone credentials and
\* verifier a call is 44 bytes plus its payload, an accepted reply 28.
HugeLens ==
    { Wide(32767, 65491),    \* 2^31 - 45: the call is 2^31 - 1 bytes
      Wide(32767, 65495),    \* 2^31 - 41: the body of the call is 2^31 - 1 bytes
      Wide(32767, 65496),    \* 2^31 - 40: the body of the call is 2^31 bytes
      Wide(65535, 65492),    \* 2^32 - 44: the call is 2^32 bytes
      Wide(65535, 65532),    \* 2^32 - 4
      Wide(65536, 0) }       \* 2^32

\* Messages whose payload is too large to be explored byte by byte.
HugeBlueprints ==
    {CallOf(AuthNone(None), AuthNone(None), Huge(n.hi, n.lo)) : n \in HugeLens}
        \cup {ReplyOf(Accepted(AcceptedReply(AuthNone(None), Success(Huge(n.hi, n.lo))))) :
                n \in HugeLens}

\* The messages written into a reused cursor: a short reply, a call of odd
\* length, the call of the bench and a call with a payload of 2^32 bytes.
ReuseBlueprints ==
    { ReplyOf(Denied(RpcVersionMismatch(2, 3))),
      CallOf(AuthUnix(UnixParams(1, MaxGidsLen)), AuthNone(None), Data(MaxPayloadLen)),
      CallOf(AuthUnix(UnixParams(0, MAX_GIDS)), AuthNone(None), << >>),
      CallOf(AuthNone(None), AuthNone(None), Huge(65536, 0)) }

\* The record-marking frame of a body that a peer sends: last-fragment bit
\* and the body length, then the body.
Frame(body) == Header(Len(body)) \o body

\* rpc_message.rs test_fuzz_message_too_long_for_type: RAW
FuzzVector ==
    << 128, 0, 0, 35, 35, 35, 35, 35, 0, 0, 0, 1, 0, 0, 0, 0, 0, 0, 0, 0, 0, 0, 0, 0,
       0, 0, 0, 1, 3, 2, 35, 35, 35, 35, 35, 0, 35, 35, 0 >>

\* The 4-byte big-endian encodings of ws, one after the other.
Words(ws) == [i \in 1..(4 * Len(ws)) |-> Write32(ws[((i - 1) \div 4) + 1])[((i - 1) % 4) + 1]]

\* A call whose AUTH_UNIX credentials carry MAX_GIDS + 1 gids, all present
\* and counted in the declared length.
GidsOverflowBuffer ==
    Frame(Words(<< 7, MESSAGE_TYPE_CALL, RPC_VERSION, 8, 9, 10,
                   AUTH_UNIX, 20 + 4 * (MAX_GIDS + 1), 1, 0, 2, 3, MAX_GIDS + 1 >>
                \o [i \in 1..(MAX_GIDS + 1) |-> i]
                \o << AUTH_NONE, 0 >>))

\* Calls of another protocol version: one that ends after the version, one
\* otherwise complete.
BadVersionBuffers ==
    {Frame(Words(<< 7, MESSAGE_TYPE_CALL, v >>)) : v \in {0, 3}}
        \cup {Frame(Words(<< 7, MESSAGE_TYPE_CALL, 3, 8, 9, 10, AUTH_NONE, 0, AUTH_NONE, 0 >>))}

\* Buffers a peer can send that no constructor produces: messages of another
\* implementation with a machine name over 16 bytes, fixed-size replies with
\* bytes after them inside the declared length, the fuzz vector, a call with
\* one gid too many, and calls of another protocol version.
PeerBuffers ==
    {RpcMessage_serialise(CallOf(AuthUnix(UnixParams(n, g)), f, Data(MaxPayloadLen))).bytes :
        n \in EdgeNameLens, g \in 0..MaxGidsLen,
        f \in {AuthNone(None), AuthUnix(UnixParams(0, 0))}}
        \cup {Frame(Drop(RpcMessage_serialise(m).bytes, MSG_HEADER_LEN) \o x) :
                m \in FixedReplies, x \in ExtraBytes}
        \cup {FuzzVector}
        \cup {GidsOverflowBuffer} \cup BadVersionBuffers

NotRun == [tag |-> "none"]

(***************************************************************************)
(* The state machine: an application builds and serialises a message, or a *)
(* peer sends a buffer; the buffer may be damaged once on the way; then    *)
(* expected_message_len and the two fuzz targets run on it.                *)
(***************************************************************************)
Init ==
    /\ check_padding \in BOOLEAN
    /\ overflow_checks = FALSE
    /\ pc = "idle"
    /\ origin = "none"
    /\ message = NotRun
    /\ serialised = NotRun
    /\ written = NotRun
    /\ wire = << >>
    /\ len_res = NotRun
    /\ parse_serialise = NotRun
    /\ fuzz_bytes = NotRun
    /\ cursor = [w |-> NewSink, rounds |-> 0, msg |-> NotRun, res |-> NotRun]

\* The application builds a message through the constructors; a violated
\* constructor assertion panics.
New(b) ==
    /\ pc = "idle"
    /\ message' = NewMessage(b)
    /\ pc' = IF message'.tag = "ok" THEN "built" ELSE "done"
    /\ UNCHANGED << cursor, check_padding, overflow_checks, written, origin, serialised, wire, len_res, parse_serialise,
                    fuzz_bytes >>

\* The application builds a message around a huge payload, in a build with
\* or without overflow checks (for every other message the two builds behave
\* alike, as no length overflows).
NewHuge(b, checks) ==
    /\ pc = "idle"
    /\ message' = NewMessage(b)
    /\ overflow_checks' = checks
    /\ pc' = "huge"
    /\ UNCHANGED << cursor, check_padding, written, origin, serialised, wire, len_res,
                    parse_serialise, fuzz_bytes >>

\* RpcMessage::serialise on the built message.
Serialise ==
    /\ pc = "built"
    /\ serialised' = RpcMessage_serialise(message.val)
    /\ IF serialised'.tag = "ok"
       THEN /\ wire' = serialised'.bytes
            /\ origin' = "built"
            /\ pc' = "wire"
       ELSE /\ pc' = "done"
            /\ UNCHANGED << wire, origin >>
    /\ UNCHANGED << cursor, check_padding, overflow_checks, written, message, len_res, parse_serialise, fuzz_bytes >>

\* Calls of write after which the explored sinks fail.
MaxFailAt == 20

\* RpcMessage::serialise_into on the built message and a sink of the caller
\* that is empty and fails at write call k (never if k = 0).
SerialiseInto(k, sticky) ==
    /\ pc \in {"built", "huge"}
    /\ written' = RpcMessage_serialise_into(message.val, FailingSink(k, sticky))
    /\ pc' = "done"
    /\ UNCHANGED << cursor, check_padding, overflow_checks, origin, message, serialised, wire, len_res,
                    parse_serialise, fuzz_bytes >>

\* Messages written one after another into the same cursor.
MaxReuse == 3

\* The bench serialise_into_rpc_message_no_payload, with any message: the
\* position of the reused cursor is set to 0 and the message b is serialised
\* into it.
SerialiseIntoReused(b) ==
    /\ pc \in {"idle", "reuse"}
    /\ cursor.rounds < MaxReuse
    /\ NewMessage(b).tag = "ok"
    /\ cursor' = Let(RpcMessage_serialise_into(NewMessage(b).val, set_position_0(cursor.w)),
                     LAMBDA r : [w |-> r.w, rounds |-> cursor.rounds + 1,
                                 msg |-> NewMessage(b).val, res |-> r])
    /\ pc' = "reuse"
    /\ UNCHANGED << check_padding, overflow_checks, origin, message, serialised, written,
                    wire, len_res, parse_serialise, fuzz_bytes >>

\* A peer sends a buffer.
Receive(b) ==
    /\ pc = "idle"
    /\ wire' = b
    /\ origin' = "peer"
    /\ pc' = "wire"
    /\ UNCHANGED << cursor, check_padding, overflow_checks, written, message, serialised, len_res, parse_serialise,
                    fuzz_bytes >>

\* The buffer is cut to its first n bytes.
Truncate(n) ==
    /\ pc = "wire"
    /\ origin = "built"
    /\ n < Len(wire)
    /\ wire' = SubSeq(wire, 1, n)
    /\ origin' = "truncated"
    /\ UNCHANGED << cursor, check_padding, overflow_checks, written, pc, message, serialised, len_res, parse_serialise,
                    fuzz_bytes >>

\* Byte i of the buffer is replaced by v.
Corrupt(i, v) ==
    /\ pc = "wire"
    /\ origin = "built"
    /\ i \in 1..Len(wire)
    /\ wire[i] # v
    /\ wire' = [wire EXCEPT ![i] = v]
    /\ origin' = "corrupted"
    /\ UNCHANGED << cursor, check_padding, overflow_checks, written, pc, message, serialised, len_res, parse_serialise,
                    fuzz_bytes >>

\* Bytes follow the message in the buffer.
Extend(x) ==
    /\ pc = "wire"
    /\ origin = "built"
    /\ wire' = wire \o x
    /\ origin' = "extended"
    /\ UNCHANGED << cursor, check_padding, overflow_checks, written, pc, message, serialised, len_res, parse_serialise,
                    fuzz_bytes >>

\* expected_message_len(wire)
ExpectedMessageLen ==
    /\ pc = "wire"
    /\ len_res' = expected_message_len(wire)
    /\ pc' = "measured"
    /\ UNCHANGED << cursor, check_padding, overflow_checks, written, origin, message, serialised, wire, parse_serialise,
                    fuzz_bytes >>

\* fuzz target parse_serialise: decode the slice; if that succeeds serialise
\* the message and decode the result, which must equal the first message.
ParseSerialise(data) ==
    Let(RpcMessage_from_bytes(data), LAMBDA got :
    Let(IF got.tag = "ok" THEN RpcMessage_serialise(got.val) ELSE NotRun, LAMBDA out :
    Let(IF out.tag = "ok" THEN RpcMessage_from_bytes(out.bytes) ELSE NotRun, LAMBDA got2 :
        [got |-> got, buf |-> out, got2 |-> got2,
         aborted |-> \/ got.tag = "panic"
                     \/ /\ got.tag = "ok"
                        /\ \/ out.tag # "ok"
                           \/ got2.tag # "ok"
                           \/ got2.val # got.val])))

FuzzParseSerialise ==
    /\ pc = "measured"
    /\ parse_serialise' = ParseSerialise(wire)
    /\ pc' = "parsed"
    /\ UNCHANGED << cursor, check_padding, overflow_checks, written, origin, message, serialised, wire, len_res, fuzz_bytes >>

\* fuzz target bytes: decode with the Bytes decoder; if that succeeds the
\* slice decoder must succeed and both messages serialise to the same bytes,
\* otherwise the slice decoder must fail.
BytesTarget(data) ==
    Let(RpcMessage_try_from(data), LAMBDA msg :
    Let(IF msg.tag = "panic" THEN NotRun ELSE RpcMessage_from_bytes(data), LAMBDA slice_msg :
    Let(IF msg.tag = "ok" /\ slice_msg.tag = "ok"
        THEN RpcMessage_serialise(slice_msg.val) ELSE NotRun, LAMBDA slice_buf :
    Let(IF slice_buf.tag = "ok" THEN RpcMessage_serialise(msg.val) ELSE NotRun,
        LAMBDA bytes_buf :
        [msg |-> msg, slice_msg |-> slice_msg, slice_buf |-> slice_buf,
         bytes_buf |-> bytes_buf,
         aborted |-> \/ msg.tag = "panic"
                     \/ slice_msg.tag = "panic"
                     \/ /\ msg.tag = "ok"
                        /\ \/ slice_msg.tag # "ok"
                           \/ slice_buf.tag # "ok"
                           \/ bytes_buf.tag # "ok"
                           \/ slice_buf.bytes # bytes_buf.bytes
                     \/ msg.tag = "err" /\ slice_msg.tag = "ok"]))))

FuzzBytes ==
    /\ pc = "parsed"
    /\ fuzz_bytes' = BytesTarget(wire)
    /\ pc' = "done"
    /\ UNCHANGED << cursor, check_padding, overflow_checks, written, origin, message, serialised, wire, len_res,
                    parse_serialise >>

\* No explored buffer is longer than this.
MaxWireLen == 300

Next ==
    \/ \E b \in Blueprints : New(b)
    \/ \E b \in HugeBlueprints, checks \in BOOLEAN : NewHuge(b, checks)
    \/ Serialise
    \/ \E k \in 0..MaxFailAt, sticky \in BOOLEAN : SerialiseInto(k, sticky)
    \/ \E b \in ReuseBlueprints : SerialiseIntoReused(b)
    \/ \E b \in PeerBuffers : Receive(b)
    \/ \E n \in 0..MaxWireLen : Truncate(n)
    \/ \E i \in 1..MaxWireLen, v \in CorruptVals : Corrupt(i, v)
    \/ \E x \in ExtraBytes : Extend(x)
    \/ ExpectedMessageLen
    \/ FuzzParseSerialise
    \/ FuzzBytes

Spec == Init /\ [][Next]_vars

(***************************************************************************)
(* Properties                                                              *)
(***************************************************************************)
\* Both fuzz targets have run on the buffer.
Decoded == pc = "done" /\ fuzz_bytes # NotRun

\* The auth flavors a message carries.
FlavorsOf(m) ==
    IF m.message_type.type = "Call"
    THEN {m.message_type.body.auth_credentials, m.message_type.body.auth_verifier}
    ELSE IF m.message_type.body.reply = "Accepted"
    THEN {m.message_type.body.body.auth_verifier}
    ELSE {}

\* A flavor value that is the one its own wire form decodes to.
CanonicalFlavor(f) ==
    /\ f # AuthNone(Some(<< >>))
    /\ ~(f.flavor = "Unknown" /\ f.id \in {AUTH_NONE, AUTH_UNIX, AUTH_SHORT})

\* The length the fragment header of b declares, plus the header itself.
DeclaredLen(b) ==
    ((b[1] % 128) * 16777216 + b[2] * 65536 + b[3] * 256 + b[4]) + 4

\* b is a complete last fragment that holds a version 2 call up to its
\* credentials.
IsCallFrame(b) ==
    /\ Len(b) >= 36
    /\ b[1] >= 128
    /\ DeclaredLen(b) = Len(b)
    /\ BE32(b, 8) = MESSAGE_TYPE_CALL
    /\ BE32(b, 12) = RPC_VERSION

\* The length prefix of the credential's opaque body (flavors other than
\* AUTH_UNIX) declares more bytes, with padding, than the buffer holds.
CredentialOverrun(b) ==
    /\ IsCallFrame(b)
    /\ BE32(b, 28) # AUTH_UNIX
    /\ BE32(b, 32) + pad_length(BE32(b, 32)) > Len(b) - 36

\* The length prefix of the machine name of an AUTH_UNIX credential declares
\* more bytes, with padding, than the buffer holds.
MachineNameOverrun(b) ==
    /\ IsCallFrame(b)
    /\ Len(b) >= 44
    /\ BE32(b, 28) = AUTH_UNIX
    /\ BE32(b, 32) <= MAX_AUTH_DATA
    /\ BE32(b, 40) + pad_length(BE32(b, 40)) > Len(b) - 44

C2_ByteFidelity ==
    Decoded =>
        /\ parse_serialise.got.tag = "ok" =>
              /\ parse_serialise.buf.tag = "ok"
              /\ parse_serialise.buf.bytes = wire
        /\ fuzz_bytes.msg.tag = "ok" =>
              Let(RpcMessage_serialise(fuzz_bytes.msg.val), LAMBDA out :
                  out.tag = "ok" /\ out.bytes = wire)

C4_DecodersAgree ==
    Decoded =>
        /\ (fuzz_bytes.msg.tag = "ok") <=> (parse_serialise.got.tag = "ok")
        /\ (fuzz_bytes.msg.tag = "ok" /\ parse_serialise.got.tag = "ok") =>
              /\ fuzz_bytes.slice_buf.tag = "ok"
              /\ fuzz_bytes.bytes_buf.tag = "ok"
              /\ fuzz_bytes.slice_buf.bytes = fuzz_bytes.bytes_buf.bytes

\* C5: decoding any buffer returns a message or an error and never panics
\* (both decoders).
C5_DecodingTotal ==
    Decoded =>
        /\ parse_serialise.got.tag \in {"ok", "err"}
        /\ fuzz_bytes.msg.tag \in {"ok", "err"}

\* C6: when the length prefix of an opaque (auth flavor data, machine name)
\* declares more bytes, padding included, than remain in the buffer, decoding
\* fails with InvalidLength (both decoders).
C6_OverrunIsInvalidLength ==
    (Decoded /\ (CredentialOverrun(wire) \/ MachineNameOverrun(wire))) =>
        /\ parse_serialise.got = Err(InvalidLength)
        /\ fuzz_bytes.msg = Err(InvalidLength)

\* C7: a buffer with the last-fragment bit set whose length differs from the
\* declared length plus 4 is rejected by both decoders with
\* IncompleteMessage { buffer_len, expected = (header & 0x7fffffff) + 4 },
\* whatever the body holds.
C7_HeaderLengthMismatch ==
    (Decoded /\ Len(wire) >= 4 /\ wire[1] >= 128 /\ DeclaredLen(wire) # Len(wire)) =>
        /\ parse_serialise.got = Err(IncompleteMessage(Len(wire), DeclaredLen(wire)))
        /\ fuzz_bytes.msg = Err(IncompleteMessage(Len(wire), DeclaredLen(wire)))

\* A message followed by extra bytes was rejected by both decoders with the
\* declared length as the expected one.
C7_Witness ==
    /\ Decoded
    /\ origin = "extended"
    /\ Len(wire) > DeclaredLen(wire)
    /\ parse_serialise.got = Err(IncompleteMessage(Len(wire), DeclaredLen(wire)))
    /\ fuzz_bytes.msg = Err(IncompleteMessage(Len(wire), DeclaredLen(wire)))

\* C8: a header of 4 bytes with the top bit clear makes expected_message_len
\* and both decoders fail with Fragmented, also when the declared length does
\* not match the buffer.
C8_FragmentBitClear ==
    (Decoded /\ Len(wire) >= 4 /\ wire[1] < 128) =>
        /\ len_res = Err(Fragmented)
        /\ parse_serialise.got = Err(Fragmented)
        /\ fuzz_bytes.msg = Err(Fragmented)

\* A header with the top bit clear and a declared length that does not match
\* the buffer was reported as Fragmented.
C8_Witness ==
    /\ Decoded
    /\ Len(wire) >= 4
    /\ wire[1] < 128
    /\ DeclaredLen(wire) # Len(wire)
    /\ len_res = Err(Fragmented)
    /\ parse_serialise.got = Err(Fragmented)
    /\ fuzz_bytes.msg = Err(Fragmented)

\* C9: a buffer of fewer than 4 bytes, the empty one included, makes
\* expected_message_len and both decoders fail with IncompleteHeader.
C9_ShortBuffer ==
    (Decoded /\ Len(wire) < MSG_HEADER_LEN) =>
        /\ len_res = Err(IncompleteHeader)
        /\ parse_serialise.got = Err(IncompleteHeader)
        /\ fuzz_bytes.msg = Err(IncompleteHeader)

\* The empty buffer was reported as IncompleteHeader.
C9_Witness ==
    /\ Decoded
    /\ wire = << >>
    /\ len_res = Err(IncompleteHeader)
    /\ parse_serialise.got = Err(IncompleteHeader)
    /\ fuzz_bytes.msg = Err(IncompleteHeader)

\* C10: when the buffer passes the header length check and its body parses
\* into a message whose serialised_len() is not the buffer length, decoding
\* fails with IncompleteMessage { buffer_len, expected = serialised_len() };
\* a returned message has consumed the whole buffer.
C10_ParsedLengthMismatch ==
    (Decoded /\ expected_message_len(wire) = Ok(Len(wire), 0)) =>
        /\ Let(MessageType_from_cursor(Drop(wire, MSG_HEADER_LEN), 4), LAMBDA body :
               (body.tag = "ok" /\ 8 + ToInt(MessageType_serialised_len(body.val).val) # Len(wire)) =>
                   parse_serialise.got =
                       Err(IncompleteMessage(Len(wire),
                                             8 + ToInt(MessageType_serialised_len(body.val).val))))
        /\ Let(MessageType_try_from(Drop(wire, 8)), LAMBDA body :
               (body.tag = "ok" /\ 8 + ToInt(MessageType_serialised_len(body.val).val) # Len(wire)) =>
                   fuzz_bytes.msg =
                       Err(IncompleteMessage(Len(wire),
                                             8 + ToInt(MessageType_serialised_len(body.val).val))))
        /\ parse_serialise.got.tag = "ok" =>
               /\ parse_serialise.got.rest = Len(wire) - MSG_HEADER_LEN
               /\ RpcMessage_serialised_len(parse_serialise.got.val).val = WideOf(Len(wire))
        /\ fuzz_bytes.msg.tag = "ok" =>
               /\ fuzz_bytes.msg.rest = << >>
               /\ RpcMessage_serialised_len(fuzz_bytes.msg.val).val = WideOf(Len(wire))

\* The buffer of test_fuzz_message_too_long_for_type (39 bytes whose header
\* declares 39, holding a 28 byte reply) was rejected by both decoders.
C10_Witness ==
    /\ Decoded
    /\ wire = FuzzVector
    /\ expected_message_len(wire) = Ok(Len(wire), 0)
    /\ parse_serialise.got = Err(IncompleteMessage(39, 28))
    /\ fuzz_bytes.msg = Err(IncompleteMessage(39, 28))

\* The machine name of the AUTH_UNIX credentials of call frame b lies in the
\* buffer, within the 16 bytes both decoders accept.
UnixNameInBuffer(b) ==
    /\ IsCallFrame(b)
    /\ Len(b) >= 44
    /\ BE32(b, 28) = AUTH_UNIX
    /\ BE32(b, 32) <= MAX_AUTH_DATA
    /\ BE32(b, 40) <= BYTES_MACHINE_NAME_MAX
    /\ 44 + BE32(b, 40) + pad_length(BE32(b, 40)) <= Len(b)

\* Offset of the byte after the padded machine name.
AfterName(b) == 44 + BE32(b, 40) + pad_length(BE32(b, 40))

\* The padding of the machine name holds a non-zero byte.
NamePaddingNonZero(b) ==
    /\ UnixNameInBuffer(b)
    /\ ~AllZero(SubSeq(b, 44 + BE32(b, 40) + 1, AfterName(b)))

\* The credentials are an opaque flavor whose body lies in the buffer and
\* whose padding holds a non-zero byte.
CredentialPaddingNonZero(b) ==
    /\ IsCallFrame(b)
    /\ BE32(b, 28) # AUTH_UNIX
    /\ BE32(b, 32) <= MAX_AUTH_DATA
    /\ 36 + BE32(b, 32) + pad_length(BE32(b, 32)) <= Len(b)
    /\ ~AllZero(SubSeq(b, 36 + BE32(b, 32) + 1, 36 + BE32(b, 32) + pad_length(BE32(b, 32))))

\* C11: decoding an opaque field (auth flavor data, machine name) whose
\* padding bytes are not all zero fails with InvalidPaddingData (both
\* decoders).
C11_PaddingRejected ==
    (Decoded /\ (NamePaddingNonZero(wire) \/ CredentialPaddingNonZero(wire))) =>
        /\ parse_serialise.got = Err(InvalidPaddingData)
        /\ fuzz_bytes.msg = Err(InvalidPaddingData)

\* The gids count of the AUTH_UNIX credentials of call frame b is in the
\* buffer and inside the declared length.
GidsCountInBuffer(b) ==
    /\ UnixNameInBuffer(b)
    /\ AfterName(b) + 12 <= Len(b)
    /\ AfterName(b) + 12 - 36 <= BE32(b, 32)
    /\ 36 + BE32(b, 32) + pad_length(BE32(b, 32)) <= Len(b)

GidsCount(b) == BE32(b, AfterName(b) + 8)

\* The AuthUnixParams inside a set of flavors.
UnixParamsOf(fs) == {f.params : f \in {g \in fs : g.flavor = "AuthUnix"}}

\* C12: an AUTH_UNIX body whose gids count is over 16 is rejected with
\* InvalidAuthData by both decoders, and no decoded AuthUnixParams holds more
\* than 16 gids.
C12_GidsCapacity ==
    Decoded =>
        /\ (GidsCountInBuffer(wire) /\ GidsCount(wire) > MAX_GIDS) =>
              /\ parse_serialise.got = Err(InvalidAuthData)
              /\ fuzz_bytes.msg = Err(InvalidAuthData)
        /\ parse_serialise.got.tag = "ok" =>
              \A p \in UnixParamsOf(FlavorsOf(parse_serialise.got.val)) :
                  Len(p.gids) <= MAX_GIDS
        /\ fuzz_bytes.msg.tag = "ok" =>
              \A p \in UnixParamsOf(FlavorsOf(fuzz_bytes.msg.val)) :
                  Len(p.gids) <= MAX_GIDS

\* The call with 17 gids, all present in the buffer, was rejected with
\* InvalidAuthData by both decoders.
C12_Witness ==
    /\ Decoded
    /\ wire = GidsOverflowBuffer
    /\ GidsCountInBuffer(wire)
    /\ GidsCount(wire) = MAX_GIDS + 1
    /\ parse_serialise.got = Err(InvalidAuthData)
    /\ fuzz_bytes.msg = Err(InvalidAuthData)

\* The fields of the AuthUnixParams of the credentials of call frame b are
\* all in the buffer: name of at most 16 bytes, at most 16 gids.
UnixFieldsInBuffer(b) ==
    /\ UnixNameInBuffer(b)
    /\ AfterName(b) + 12 <= Len(b)
    /\ GidsCount(b) <= MAX_GIDS
    /\ AfterName(b) + 12 + 4 * GidsCount(b) <= Len(b)

\* The bytes parsing those fields consumes, from the stamp on.
UnixConsumed(b) == (AfterName(b) + 12 + 4 * GidsCount(b)) - 36

\* C13: an AUTH_UNIX flavor decodes only if parsing its fields consumes
\* exactly the declared length, and every mismatch is reported as
\* InvalidAuthData (both decoders).
C13_ExactConsumption ==
    (Decoded /\ UnixFieldsInBuffer(wire) /\ UnixConsumed(wire) # BE32(wire, 32)) =>
        /\ parse_serialise.got = Err(InvalidAuthData)
        /\ fuzz_bytes.msg = Err(InvalidAuthData)

\* b is a complete accepted reply up to the length of its verifier.
IsAcceptedReplyFrame(b) ==
    /\ Len(b) >= 24
    /\ b[1] >= 128
    /\ DeclaredLen(b) = Len(b)
    /\ BE32(b, 8) = MESSAGE_TYPE_REPLY
    /\ BE32(b, 12) = REPLY_ACCEPTED

\* The credentials of call frame b are an opaque flavor without padding that
\* lies in the buffer, and the length of the verifier follows it.
VerifierLenAt(b) == 36 + BE32(b, 32) + 4

VerifierLenInBuffer(b) ==
    /\ IsCallFrame(b)
    /\ BE32(b, 28) # AUTH_UNIX
    /\ BE32(b, 32) <= MAX_AUTH_DATA
    /\ BE32(b, 32) % 4 = 0
    /\ VerifierLenAt(b) + 4 <= Len(b)

\* The length prefix of an auth flavor of b is over 200.
AuthLengthOver(b) ==
    \/ IsCallFrame(b) /\ BE32(b, 32) > MAX_AUTH_DATA
    \/ VerifierLenInBuffer(b) /\ BE32(b, VerifierLenAt(b)) > MAX_AUTH_DATA
    \/ IsAcceptedReplyFrame(b) /\ BE32(b, 20) > MAX_AUTH_DATA

\* Every flavor of message m has at most 200 bytes of associated data.
FlavorsBounded(m) ==
    \A f \in FlavorsOf(m) : AuthFlavor_associated_data_len(f) <= MAX_AUTH_DATA

C15_RpcVersion ==
    /\ (Decoded /\ Len(wire) >= 16 /\ wire[1] >= 128 /\ DeclaredLen(wire) = Len(wire)
            /\ BE32(wire, 8) = MESSAGE_TYPE_CALL /\ BE32(wire, 12) # RPC_VERSION) =>
          /\ parse_serialise.got = Err(InvalidRpcVersion(BE32(wire, 12)))
          /\ fuzz_bytes.msg = Err(InvalidRpcVersion(BE32(wire, 12)))
    /\ (message # NotRun /\ message.tag = "ok" /\ message.val.message_type.type = "Call") =>
          /\ CallBody_rpc_version(message.val.message_type.body) = RPC_VERSION
          /\ (origin = "built" /\ pc = "wire") => BE32(wire, 12) = RPC_VERSION

\* A call of version 3 that ends right after the version field was rejected
\* with InvalidRpcVersion(3) by both decoders.
C15_Witness ==
    /\ Decoded
    /\ wire = Frame(Words(<< 7, MESSAGE_TYPE_CALL, 3 >>))
    /\ parse_serialise.got = Err(InvalidRpcVersion(3))
    /\ fuzz_bytes.msg = Err(InvalidRpcVersion(3))

\* A built call was serialised.
C15_WitnessBuilt ==
    /\ origin = "built"
    /\ pc = "wire"
    /\ message.val.message_type.type = "Call"
    /\ BE32(wire, 12) = CallBody_rpc_version(message.val.message_type.body)

\* b is a complete record of at least n bytes with the last-fragment bit.
IsFrame(b, n) ==
    /\ Len(b) >= n
    /\ b[1] >= 128
    /\ DeclaredLen(b) = Len(b)

\* b is an accepted reply whose verifier is an opaque flavor without padding
\* that lies in the buffer, followed by the status.
StatusAt(b) == 24 + BE32(b, 20)

StatusInBuffer(b) ==
    /\ IsAcceptedReplyFrame(b)
    /\ BE32(b, 16) # AUTH_UNIX
    /\ BE32(b, 20) <= MAX_AUTH_DATA
    /\ BE32(b, 20) % 4 = 0
    /\ StatusAt(b) + 4 <= Len(b)

\* Both decoders failed with error e.
BothFailWith(e) ==
    /\ parse_serialise.got = Err(e)
    /\ fuzz_bytes.msg = Err(e)

\* C16: an out-of-range value v of a closed discriminator is rejected by both
\* decoders with the error of that discriminator carrying v: message type
\* (0..1), reply type (0..1), accepted status (0..5), rejected reply type
\* (0..1) and auth error (0..7).
C16_Discriminators ==
    Decoded =>
        /\ (IsFrame(wire, 12) /\ BE32(wire, 8) > MESSAGE_TYPE_REPLY) =>
              BothFailWith(InvalidMessageType(BE32(wire, 8)))
        /\ (IsFrame(wire, 16) /\ BE32(wire, 8) = MESSAGE_TYPE_REPLY
                /\ BE32(wire, 12) > REPLY_DENIED) =>
              BothFailWith(InvalidReplyType(BE32(wire, 12)))
        /\ (StatusInBuffer(wire) /\ BE32(wire, StatusAt(wire)) > REPLY_SYSTEM_ERR) =>
              BothFailWith(InvalidReplyStatus(BE32(wire, StatusAt(wire))))
        /\ (IsFrame(wire, 20) /\ BE32(wire, 8) = MESSAGE_TYPE_REPLY
                /\ BE32(wire, 12) = REPLY_DENIED
                /\ BE32(wire, 16) > REJECTED_AUTH_ERROR) =>
              BothFailWith(InvalidRejectedReplyType(BE32(wire, 16)))
        /\ (IsFrame(wire, 24) /\ BE32(wire, 8) = MESSAGE_TYPE_REPLY
                /\ BE32(wire, 12) = REPLY_DENIED
                /\ BE32(wire, 16) = REJECTED_AUTH_ERROR
                /\ BE32(wire, 20) >= Len(AuthErrorNames)) =>
              BothFailWith(InvalidAuthError(BE32(wire, 20)))

\* An auth error corrupted to 17 was rejected with InvalidAuthError(17).
C16_Witness ==
    /\ Decoded
    /\ IsFrame(wire, 24)
    /\ BE32(wire, 8) = MESSAGE_TYPE_REPLY
    /\ BE32(wire, 12) = REPLY_DENIED
    /\ BE32(wire, 16) = REJECTED_AUTH_ERROR
    /\ BE32(wire, 20) = 17
    /\ BothFailWith(InvalidAuthError(17))

\* C17: an AUTH_NONE flavor with a zero-length payload decodes to
\* AuthNone(None), never to AuthNone(Some(empty)), in both decoders, and both
\* values serialise to the same 8 bytes.
C17_EmptyAuthNone ==
    /\ Decoded =>
          /\ parse_serialise.got.tag = "ok" =>
                AuthNone(Some(<< >>)) \notin FlavorsOf(parse_serialise.got.val)
          /\ fuzz_bytes.msg.tag = "ok" =>
                AuthNone(Some(<< >>)) \notin FlavorsOf(fuzz_bytes.msg.val)
          /\ (IsCallFrame(wire) /\ BE32(wire, 28) = AUTH_NONE /\ BE32(wire, 32) = 0
                  /\ parse_serialise.got.tag = "ok") =>
                parse_serialise.got.val.message_type.body.auth_credentials = AuthNone(None)
          /\ (IsCallFrame(wire) /\ BE32(wire, 28) = AUTH_NONE /\ BE32(wire, 32) = 0
                  /\ fuzz_bytes.msg.tag = "ok") =>
                fuzz_bytes.msg.val.message_type.body.auth_credentials = AuthNone(None)
    /\ AuthFlavor_serialise_into(AuthNone(None), NewSink).w.buf = << 0, 0, 0, 0, 0, 0, 0, 0 >>
    /\ AuthFlavor_serialise_into(AuthNone(Some(<< >>)), NewSink).w.buf
          = << 0, 0, 0, 0, 0, 0, 0, 0 >>

\* A call built with the credentials AuthNone(Some(empty)) was decoded by both
\* decoders to a call with the credentials AuthNone(None).
C17_Witness ==
    /\ Decoded
    /\ origin = "built"
    /\ message.val.message_type.type = "Call"
    /\ message.val.message_type.body.auth_credentials = AuthNone(Some(<< >>))
    /\ parse_serialise.got.tag = "ok"
    /\ parse_serialise.got.val.message_type.body.auth_credentials = AuthNone(None)
    /\ fuzz_bytes.msg.tag = "ok"
    /\ fuzz_bytes.msg.val.message_type.body.auth_credentials = AuthNone(None)

\* C19: when a write to the sink fails during serialise_into, whichever
\* write it is, serialise_into returns an error.
C19_SinkFailurePropagates ==
    (written # NotRun /\ written.w.failed) => written.tag = "err"

\* C20: decoding and encoding complete fully or fail atomically: a failed
\* decode returns an error and no message, and a serialise_into that returns
\* an error leaves the sink of the caller as it was.
C20_Atomic ==
    /\ Decoded =>
          /\ parse_serialise.got.tag # "ok" => "val" \notin DOMAIN parse_serialise.got
          /\ fuzz_bytes.msg.tag # "ok" => "val" \notin DOMAIN fuzz_bytes.msg
    /\ (written # NotRun /\ written.tag = "err") => written.w.buf = << >>

\* The payload of message m, and m without it.
PayloadOf(m) ==
    IF m.message_type.type = "Call" THEN m.message_type.body.payload
    ELSE IF m.message_type.body.reply = "Accepted"
            /\ m.message_type.body.body.status.status = "Success"
    THEN m.message_type.body.body.status.payload
    ELSE << >>

WithoutPayload(m) ==
    IF m.message_type.type = "Call"
    THEN [m EXCEPT !.message_type.body.payload = << >>]
    ELSE IF m.message_type.body.reply = "Accepted"
            /\ m.message_type.body.body.status.status = "Success"
    THEN [m EXCEPT !.message_type.body.body.status.payload = << >>]
    ELSE m

\* The number of bytes the encoding of m takes, header included, without
\* any cut to 32 bits.
EncodedLen(m) ==
    WideAdd(RpcMessage_serialised_len(WithoutPayload(m)).val, PayloadLen(PayloadOf(m)))

\* The body of m, the encoding without the 4 byte header, is 2^31 bytes or
\* more.
BodyOversize(m) ==
    \/ EncodedLen(m).hi > Half \div 2
    \/ EncodedLen(m).hi = Half \div 2 /\ EncodedLen(m).lo >= 4

\* The length the header at the start of the sink announces, and the bytes
\* the sink holds after the header.
AnnouncedLen(w) ==
    Wide((w.buf[1] % 128) * 256 + w.buf[2], w.buf[3] * 256 + w.buf[4])

FollowingLen(w) == WideAdd(WideOf(Len(w.buf) - 4), w.bulk)

\* C18: serialise_into returns an InvalidInput error without writing a byte
\* for every message whose encoded body would be 2^31 bytes or more, whatever
\* the size of the payload, and a header it writes announces the number of
\* bytes that follow it (sinks that never fail).
C18_OversizeRejected ==
    (written # NotRun /\ written.w.fail = 0 /\ message.tag = "ok"
        /\ FlavorsBounded(message.val)) =>
        /\ BodyOversize(message.val) =>
              /\ written.tag = "err"
              /\ written.err = IoInvalidInput
              /\ written.w.buf = << >>
              /\ written.w.bulk = WideOf(0)
        /\ written.tag = "ok" => AnnouncedLen(written.w) = FollowingLen(written.w)

\* The number of bytes a sink holds.
SinkLen(w) == WideAdd(WideOf(Len(w.buf)), w.bulk)

\* Serialising flavor f alone into a fresh sink that never fails, if it
\* succeeds, writes serialised_len() bytes; so does serialising the
\* AuthUnixParams inside an AuthUnix flavor.
FlavorLenExact(f) ==
    /\ AuthFlavor_serialise_into(f, NewSink).tag = "ok" =>
          Len(AuthFlavor_serialise_into(f, NewSink).w.buf) = AuthFlavor_serialised_len(f)
    /\ f.flavor = "AuthUnix" =>
          Len(AuthUnixParams_serialise_into(f.params, NewSink).w.buf)
              = AuthUnixParams_serialised_len(f.params)

\* C21: a successful serialise_into of a message or of a component writes
\* exactly serialised_len() bytes, and serialise() returns a vector of
\* exactly serialised_len() bytes.
C21_LengthContract ==
    (message # NotRun /\ message.tag = "ok") =>
        /\ (written # NotRun /\ written.tag = "ok") =>
              SinkLen(written.w) = RpcMessage_serialised_len(message.val).val
        /\ (serialised # NotRun /\ serialised.tag = "ok") =>
              WideOf(Len(serialised.bytes)) = RpcMessage_serialised_len(message.val).val
        /\ \A f \in FlavorsOf(message.val) : FlavorLenExact(f)
        /\ (written # NotRun /\ written.tag = "ok") =>
              Let(MessageType_serialise_into(message.val.message_type, NewSink), LAMBDA r :
                  r.tag = "ok" =>
                      SinkLen(r.w) = MessageType_serialised_len(message.val.message_type).val)

\* n zero bytes.
Zeros(n) == [i \in 1..n |-> 0]

\* The wire form of an opaque value: length, data, zero padding.
OpaqueWire(body) == Write32(Len(body)) \o body \o Zeros((4 - (Len(body) % 4)) % 4)

\* The bytes of s from offset pos that the wire form of body would take.
FieldAt(s, pos, body) == SubSeq(s, pos + 1, pos + 4 + Len(body) + pad_length(Len(body)))

\* The opaque data of a flavor that is not AuthUnix.
OpaqueDataOf(f) ==
    IF f.flavor = "AuthNone" THEN (IF f.opt = None THEN << >> ELSE f.opt[1]) ELSE f.data

\* C22: an opaque value of len bytes is encoded as the 4-byte big-endian
\* length, the data bytes unchanged, then (4 - len % 4) % 4 zero bytes, which
\* is 4 + len + pad(len) bytes: the machine name of AUTH_UNIX credentials and
\* the data of opaque credentials in every call that serialise_into encoded.
C22_OpaqueEncoding ==
    (written # NotRun /\ written.tag = "ok" /\ message.val.message_type.type = "Call") =>
        Let(message.val.message_type.body.auth_credentials, LAMBDA cred :
            IF cred.flavor = "AuthUnix"
            THEN FieldAt(written.w.buf, 40, cred.params.machine_name)
                     = OpaqueWire(cred.params.machine_name)
            ELSE FieldAt(written.w.buf, 32, OpaqueDataOf(cred)) = OpaqueWire(OpaqueDataOf(cred)))

\* 12 + (4 + n + pad(n)) + 4 + 4 * g for a machine name of n bytes and g gids.
UnixBodyLen(p) ==
    12 + (4 + Len(p.machine_name) + ((4 - (Len(p.machine_name) % 4)) % 4)) + 4
       + 4 * Len(p.gids)

\* C23: an AuthUnixParams with a machine name of n bytes and g gids has
\* serialised_len() = 12 + (4 + n + pad(n)) + 4 + 4 * g; the AUTH_UNIX flavor
\* around it has serialised_len() 8 more and writes that value as its length
\* prefix.
C23_UnixLengths ==
    (message # NotRun /\ message.tag = "ok") =>
        /\ \A f \in FlavorsOf(message.val) :
              f.flavor = "AuthUnix" =>
                  /\ AuthUnixParams_serialised_len(f.params) = UnixBodyLen(f.params)
                  /\ AuthFlavor_serialised_len(f) = 8 + UnixBodyLen(f.params)
        /\ (message.val.message_type.type = "Call"
                /\ message.val.message_type.body.auth_credentials.flavor = "AuthUnix") =>
              Let(message.val.message_type.body.auth_credentials, LAMBDA cred :
                  /\ (serialised # NotRun /\ serialised.tag = "ok") =>
                        /\ BE32(serialised.bytes, 28) = AUTH_UNIX
                        /\ BE32(serialised.bytes, 32) = UnixBodyLen(cred.params)
                        /\ BE32(serialised.bytes, 28 + 8 + UnixBodyLen(cred.params))
                              = AuthFlavor_id(message.val.message_type.body.auth_verifier)
                  /\ (written # NotRun /\ written.tag = "ok") =>
                        BE32(written.w.buf, 32) = UnixBodyLen(cred.params))

\* The call whose credentials have no machine name and 16 gids was
\* serialised: an 84 byte body in a 92 byte block.
C23_Witness ==
    /\ pc = "wire"
    /\ origin = "built"
    /\ message.val.message_type.type = "Call"
    /\ message.val.message_type.body.auth_credentials = AuthUnix(UnixParams(0, MAX_GIDS))
    /\ BE32(wire, 32) = 84
    /\ AuthFlavor_serialised_len(AuthUnix(UnixParams(0, MAX_GIDS))) = 92
    /\ Len(wire) = 28 + 92 + 8

\* The call whose credentials have a 15 byte machine name and no gids was
\* serialised: a 36 byte body in a 44 byte block.
C23_WitnessUnaligned ==
    /\ pc = "wire"
    /\ origin = "built"
    /\ message.val.message_type.type = "Call"
    /\ message.val.message_type.body.auth_credentials
          = AuthUnix(UnixParams(UnalignedNameLen, 0))
    /\ BE32(wire, 32) = 36
    /\ AuthFlavor_serialised_len(AuthUnix(UnixParams(UnalignedNameLen, 0))) = 44
    /\ Len(wire) = 28 + 44 + 8

\* C24: the output of a successful serialisation starts with a header whose
\* top bit is set and whose low 31 bits count the bytes after it, so that
\* expected_message_len of the output, the length of the output and
\* serialised_len() are equal.
C24_HeaderAgrees ==
    (message # NotRun /\ message.tag = "ok") =>
        /\ (serialised # NotRun /\ serialised.tag = "ok") =>
              /\ serialised.bytes[1] >= 128
              /\ expected_message_len(serialised.bytes) = Ok(Len(serialised.bytes), 0)
              /\ RpcMessage_serialised_len(message.val) = Ok(WideOf(Len(serialised.bytes)), 0)
        /\ (written # NotRun /\ written.tag = "ok") =>
              /\ written.w.buf[1] >= 128
              /\ WideOf(expected_message_len(written.w.buf).val) = SinkLen(written.w)
              /\ RpcMessage_serialised_len(message.val) = Ok(SinkLen(written.w), 0)

\* The encoding of m on its own: serialise_into on a fresh cursor.
Standalone(m) == RpcMessage_serialise_into(m, NewSink).w.buf

\* C25: after the position of a reused cursor is set to 0 and a message m is
\* serialised into it, the first m.serialised_len() bytes of the cursor are
\* the encoding of m on its own and its position is m.serialised_len(),
\* whatever was written into it before.
C25_SinkReuse ==
    (cursor.msg # NotRun /\ cursor.res.tag = "ok") =>
        Let(RpcMessage_serialised_len(cursor.msg).val, LAMBDA len :
            /\ position(cursor.w) = len
            /\ SubSeq(cursor.w.buf, 1, ToInt(len)) = SubSeq(Standalone(cursor.msg), 1, ToInt(len)))

\* Every AuthUnixParams of message m has a machine name of at most 16 bytes.
NamesBounded(m) ==
    \A p \in UnixParamsOf(FlavorsOf(m)) : Len(p.machine_name) <= BYTES_MACHINE_NAME_MAX

\* C26: every AuthUnixParams built with new or returned by the slice decoder
\* or the Bytes decoder has a machine name of at most 16 bytes.
C26_MachineNameBounded ==
    /\ (message # NotRun /\ message.tag = "ok") => NamesBounded(message.val)
    /\ Decoded =>
        /\ parse_serialise.got.tag = "ok" => NamesBounded(parse_serialise.got.val)
        /\ fuzz_bytes.msg.tag = "ok" => NamesBounded(fuzz_bytes.msg.val)

\* The flavors of a message in the order of its fields.
FlavorSeq(m) ==
    IF m.message_type.type = "Call"
    THEN << m.message_type.body.auth_credentials, m.message_type.body.auth_verifier >>
    ELSE IF m.message_type.body.reply = "Accepted"
    THEN << m.message_type.body.body.auth_verifier >>
    ELSE << >>

\* gids() of the AuthUnixParams p is None exactly when no gid was given and
\* otherwise the gids given, all of them and in their order.
GidsKept(given, p) ==
    /\ Len(p.gids) <= MAX_GIDS
    /\ AuthUnixParams_gids(p) = None <=> given = << >>
    /\ given # << >> => AuthUnixParams_gids(p) = Some(given)

\* The result r of the constructors on blueprint b keeps the gids of b, and
\* is a panic if b gives more than 16 gids to an AuthUnixParams.
GidsFaithful(b, r) ==
    /\ (\E p \in UnixParamsOf(FlavorsOf(b)) : Len(p.gids) > MAX_GIDS) => r.tag = "panic"
    /\ r.tag = "ok" =>
          \A i \in 1..Len(FlavorSeq(b)) :
              FlavorSeq(b)[i].flavor = "AuthUnix" =>
                  /\ FlavorSeq(r.val)[i].flavor = "AuthUnix"
                  /\ GidsKept(FlavorSeq(b)[i].params.gids, FlavorSeq(r.val)[i].params)

\* The gids of the AUTH_UNIX credentials of call frame b, as they lie in it.
GidsInBuffer(b) == [i \in 1..GidsCount(b) |-> BE32(b, AfterName(b) + 12 + 4 * (i - 1))]

\* The decoded message r holds the gids of the credentials of buffer b.
GidsDecoded(b, r) ==
    (r.tag = "ok" /\ UnixNameInBuffer(b)) =>
        GidsKept(GidsInBuffer(b), FlavorSeq(r.val)[1].params)

\* C27: every AuthUnixParams holds at most 16 gids in their original order:
\* AuthUnixParams::new panics on more than 16 gids and otherwise keeps them
\* all, a decoder returns the gids of the buffer, and gids() is None exactly
\* when there are none and otherwise the full ordered list.
C27_GidsOrdered ==
    /\ [][(pc = "idle" /\ message' # NotRun) =>
             \A b \in Blueprints \cup HugeBlueprints :
                 message' = NewMessage(b) => GidsFaithful(b, message')]_vars
    /\ [](Decoded => /\ GidsDecoded(wire, parse_serialise.got)
                     /\ GidsDecoded(wire, fuzz_bytes.msg))

\* A call was built with 16 gids in its credentials and gids() returns them.
C27_Witness ==
    /\ pc = "built"
    /\ message.tag = "ok"
    /\ message.val.message_type.type = "Call"
    /\ message.val.message_type.body.auth_credentials.flavor = "AuthUnix"
    /\ AuthUnixParams_gids(message.val.message_type.body.auth_credentials.params)
           = Some([i \in 1..MAX_GIDS |-> 4 + i])

\* The variant the discriminator d is dispatched to.
VariantOf(d) ==
    IF d = AUTH_NONE THEN "AuthNone"
    ELSE IF d = AUTH_UNIX THEN "AuthUnix"
    ELSE IF d = AUTH_SHORT THEN "AuthShort"
    ELSE "Unknown"

\* Flavor f is what the discriminator d is dispatched to.
Dispatched(d, f) ==
    /\ f.flavor = VariantOf(d)
    /\ AuthFlavor_id(f) = d
    /\ f.flavor = "Unknown" => f.id \notin {AUTH_NONE, AUTH_UNIX, AUTH_SHORT}

\* Offsets of the flavor discriminators in frame b, in the order of the
\* fields: credentials and verifier of a call, verifier of an accepted reply.
FlavorOffsets(b) ==
    IF BE32(b, 8) = MESSAGE_TYPE_CALL
    THEN << 28, 36 + BE32(b, 32) + pad_length(BE32(b, 32)) >>
    ELSE IF BE32(b, 12) = REPLY_ACCEPTED THEN << 16 >>
    ELSE << >>

\* The flavors of the decoded message r are those the discriminators of
\* buffer b are dispatched to.
DispatchedFrom(b, r) ==
    r.tag = "ok" =>
        /\ Len(FlavorSeq(r.val)) = Len(FlavorOffsets(b))
        /\ \A i \in 1..Len(FlavorSeq(r.val)) :
               Dispatched(BE32(b, FlavorOffsets(b)[i]), FlavorSeq(r.val)[i])

\* The bytes bs of message m hold the id of each flavor of m as the first
\* four bytes of that flavor.
IdsWritten(m, bs) ==
    /\ Len(FlavorSeq(m)) = Len(FlavorOffsets(bs))
    /\ \A i \in 1..Len(FlavorSeq(m)) :
           BE32(bs, FlavorOffsets(bs)[i]) = AuthFlavor_id(FlavorSeq(m)[i])

\* C28: a decoded flavor is AuthNone, AuthUnix, AuthShort for the wire
\* discriminators 0, 1, 2 and Unknown with that id for any other; its id() is
\* the discriminator read, never an Unknown with id 0, 1 or 2; and a
\* serialised flavor starts with its id().
C28_FlavorDispatch ==
    /\ Decoded => /\ DispatchedFrom(wire, parse_serialise.got)
                  /\ DispatchedFrom(wire, fuzz_bytes.msg)
    /\ (message # NotRun /\ message.tag = "ok" /\ serialised # NotRun
          /\ serialised.tag = "ok" /\ ~IsHuge(PayloadOf(message.val))) =>
           IdsWritten(message.val, serialised.bytes)

\* A buffer whose credentials discriminator is none of 0, 1, 2 was decoded
\* by both decoders to an Unknown flavor with that id.
C28_Witness ==
    /\ Decoded
    /\ parse_serialise.got.tag = "ok"
    /\ fuzz_bytes.msg.tag = "ok"
    /\ BE32(wire, 8) = MESSAGE_TYPE_CALL
    /\ BE32(wire, 28) > AUTH_SHORT
    /\ FlavorSeq(parse_serialise.got.val)[1] = Unknown(BE32(wire, 28), Data(MaxOpaqueLen))
    /\ FlavorSeq(fuzz_bytes.msg.val)[1] = Unknown(BE32(wire, 28), Data(MaxOpaqueLen))

\* C29: a buffer that both decoders reject is rejected by both with the same
\* error value.
C29_SameError ==
    (Decoded /\ parse_serialise.got.tag = "err" /\ fuzz_bytes.msg.tag = "err") =>
        parse_serialise.got = fuzz_bytes.msg

\* C30: with a sink that never fails, serialise_into succeeds for every
\* message whose body, the bytes after the 4 byte header, is at most
\* 2^31 - 1 bytes long.
C30_RepresentableAccepted ==
    (written # NotRun /\ written.w.fail = 0 /\ message.tag = "ok"
        /\ FlavorsBounded(message.val) /\ ~BodyOversize(message.val)) =>
        written.tag = "ok"

====
